---- MODULE Spec2Model ----
(***************************************************************************)
(* Model of rust-flights: the request encoder (src/src/protobuf.rs) and    *)
(* the response decoder (src/src/client.rs).                               *)
(*                                                                         *)
(* Texts are sequences of one-character strings, Option<T> is a sequence   *)
(* of length at most one (None == <<>>, Some(x) == <<x>>), and the matches *)
(* of a selector inside an element are the sequence of matched elements in *)
(* document order.                                                         *)
(***************************************************************************)
EXTENDS Integers, Sequences, FiniteSets, TLC

VARIABLES html, result, request, info, encoded,
          hours, rangeText, timeWindow,
          pc, steps, outcome,
          cacheFile, onceState, cityCache, inits, tpc, seen, populated,
          parser, decoding,
          invoked, epc, trail, handed, returned,
          cache, order, asked, rpc, queries, resolved

\* the request encoder and the response decoder
codecVars == <<html, result, request, info, encoded>>

\* TimeWindow: the two hours given to new, the text given to from_range_str,
\* and the Result returned
windowVars == <<hours, rangeText, timeWindow>>

\* one call of FlightClient::get_flights: the position in its body, the
\* steps it has taken so far (a history of "encode", "GET", "decode"), and the
\* Result it returned
clientVars == <<pc, steps, outcome>>

\* the process-wide city cache: whether the embedded city_cache.json parses,
\* the state and the value of the OnceLock cell, the number of runs of its
\* initializer so far, and per thread the position in its operation, the map
\* it got from get_city_cache and the local map populate_cache_from_cities
\* is filling
cacheVars == <<cacheFile, onceState, cityCache, inits, tpc, seen, populated>>

\* one FlightResponseParser shared by every thread, and per thread the call
\* of parse_response it is in: its position, the document it was given, its
\* local binding flights and the Result it returned
parserVars == <<parser, decoding>>

\* one call of an entry point (the tool server's get_flights, its request
\* builder, the command line's airport search, get_flights_by_city,
\* get_flights_legacy): the parameters it was called with, the position in its
\* body, the city resolutions and flight searches it has issued so far, the
\* request it handed to the flight search, and what it returned
entryVars == <<invoked, epc, trail, handed, returned>>

\* WikidataClient::get_freebase_id_only and get_from_cache: the content of the
\* city cache, the order in which this run's HashMap iterates its entries, the
\* call made (operation and city name), the position in it (with the number
\* of calls so far, the number of queries issued before this call and the
\* response of Wikidata), the Wikidata queries issued so far and what the call
\* returned
resolverVars == <<cache, order, asked, rpc, queries, resolved>>

vars == <<codecVars, windowVars, clientVars, cacheVars, parserVars, entryVars, resolverVars>>

\* ------------------------------------------------------------------ bounds
MaxGroups == 2
MaxItems == 4
MaxStopsLen == 3
MaxPriceLen == 3
MaxUrlLegs == 2
MaxLegs == 2
MaxPassengers == 2
MaxRangeLen == 4
MaxCodes == 3
MaxCandidates == 3
MaxThreads == 3

\* ------------------------------------------------------- program constants
I32Max == 2147483647

\* --------------------------------------------------------------- Option<T>
None == <<>>

Some(x) == <<x>>

IsSome(o) == Len(o) > 0

Unwrap(o) == o[1]

\* nothing has been asked of a component
CodecIdle == html = None /\ result = None /\ request = None /\ info = None /\ encoded = None

WindowIdle == hours = None /\ rangeText = None /\ timeWindow = None

ClientIdle == pc = "idle" /\ steps = <<>> /\ outcome = None

Threads == 1..MaxThreads

CacheIdle ==
  /\ cacheFile = "valid"
  /\ onceState = "incomplete"
  /\ cityCache = None
  /\ inits = 0
  /\ tpc = [t \in Threads |-> [at |-> "idle"]]
  /\ seen = [t \in Threads |-> None]
  /\ populated = [t \in Threads |-> None]

ParserIdle == parser = None /\ decoding = <<>>

EntryIdle ==
  invoked = None /\ epc = [at |-> "idle"] /\ trail = <<>> /\ handed = None /\ returned = None

ResolverIdle ==
  /\ cache = None /\ order = <<>> /\ asked = None
  /\ rpc = [at |-> "idle", calls |-> 0, mark |-> 0, response |-> None]
  /\ queries = <<>> /\ resolved = None

\* ------------------------------------------------------------------- texts
Digits == {"0", "1", "2", "3", "4", "5", "6", "7", "8", "9"}

IsDigit(c) == c \in Digits

DigitVal(c) ==
  CASE c = "0" -> 0 [] c = "1" -> 1 [] c = "2" -> 2 [] c = "3" -> 3
    [] c = "4" -> 4 [] c = "5" -> 5 [] c = "6" -> 6 [] c = "7" -> 7
    [] c = "8" -> 8 [] c = "9" -> 9

IsWhitespace(c) == c = " "

Strings(alphabet, n) == UNION {[1..k -> alphabet] : k \in 0..n}

RECURSIVE TrimStart(_)
TrimStart(s) ==
  IF s = <<>> THEN <<>>
  ELSE IF IsWhitespace(Head(s)) THEN TrimStart(Tail(s)) ELSE s

RECURSIVE TrimEnd(_)
TrimEnd(s) ==
  IF s = <<>> THEN <<>>
  ELSE IF IsWhitespace(s[Len(s)]) THEN TrimEnd(SubSeq(s, 1, Len(s) - 1)) ELSE s

\* str::trim
Trim(s) == TrimEnd(TrimStart(s))

\* str::split_whitespace: the maximal runs of non-whitespace, in order
RECURSIVE SplitWhitespaceFrom(_, _, _)
SplitWhitespaceFrom(s, k, cur) ==
  IF k > Len(s) THEN (IF cur = <<>> THEN <<>> ELSE <<cur>>)
  ELSE IF IsWhitespace(s[k])
       THEN (IF cur = <<>> THEN <<>> ELSE <<cur>>) \o SplitWhitespaceFrom(s, k + 1, <<>>)
       ELSE SplitWhitespaceFrom(s, k + 1, Append(cur, s[k]))

SplitWhitespace(s) == SplitWhitespaceFrom(s, 1, <<>>)

\* [&str]::join(" ")
RECURSIVE JoinSpace(_)
JoinSpace(ts) ==
  IF ts = <<>> THEN <<>>
  ELSE IF Len(ts) = 1 THEN ts[1]
  ELSE ts[1] \o <<" ">> \o JoinSpace(Tail(ts))

\* str::split(sep): always at least one part, empty parts kept
RECURSIVE SplitFrom(_, _, _, _)
SplitFrom(s, sep, k, cur) ==
  IF k > Len(s) THEN <<cur>>
  ELSE IF s[k] = sep THEN <<cur>> \o SplitFrom(s, sep, k + 1, <<>>)
       ELSE SplitFrom(s, sep, k + 1, Append(cur, s[k]))

Split(s, sep) == SplitFrom(s, sep, 1, <<>>)

\* str::replace(',', "")
RemoveCommas(s) == SelectSeq(s, LAMBDA c : c # ",")

\* i32 accumulation of a digit string as str::parse::<i32> does it: checked
\* multiply-and-add for a positive literal, checked multiply-and-subtract for
\* a negative one; a non-digit or an overflow is an error (None).
RECURSIVE AccI32(_, _, _, _)
AccI32(s, k, acc, neg) ==
  IF k > Len(s) THEN Some(acc)
  ELSE IF ~IsDigit(s[k]) THEN None
  ELSE LET d == DigitVal(s[k]) IN
       IF neg
       THEN IF acc < -(I32Max \div 10) \/ (acc = -(I32Max \div 10) /\ d > (I32Max % 10) + 1)
            THEN None
            ELSE AccI32(s, k + 1, acc * 10 - d, neg)
       ELSE IF acc > I32Max \div 10 \/ (acc = I32Max \div 10 /\ d > I32Max % 10)
            THEN None
            ELSE AccI32(s, k + 1, acc * 10 + d, neg)

\* str::parse::<i32>: optional sign, then at least one ASCII digit
ParseI32(s) ==
  IF s = <<>> THEN None
  ELSE IF Head(s) = "-" THEN (IF Len(s) = 1 THEN None ELSE AccI32(s, 2, 0, TRUE))
  ELSE IF Head(s) = "+" THEN (IF Len(s) = 1 THEN None ELSE AccI32(s, 2, 0, FALSE))
  ELSE AccI32(s, 1, 0, FALSE)

\* ------------------------------------------------------- the request encoder
\* lib.rs 168-196, protobuf.rs 13-32 and the `as i32` of protobuf.rs 101-103:
\* the wire value of a seat class, a trip type and a passenger category
SeatClasses == {"Economy", "PremiumEconomy", "Business", "First"}

TripTypes == {"RoundTrip", "OneWay", "MultiCity"}

SeatToI32(seat_class) ==
  CASE seat_class = "Economy" -> 1
    [] seat_class = "PremiumEconomy" -> 2
    [] seat_class = "Business" -> 3
    [] seat_class = "First" -> 4

TripToI32(trip_type) ==
  CASE trip_type = "RoundTrip" -> 1
    [] trip_type = "OneWay" -> 2
    [] trip_type = "MultiCity" -> 3

Adult == 1

Child == 2

InfantInSeat == 3

InfantOnLap == 4

\* for _ in 0..n { result.push(p) }: nothing is pushed when n <= 0
RECURSIVE PushTimes(_, _, _)
PushTimes(v, p, n) == IF n <= 0 THEN v ELSE PushTimes(Append(v, p), p, n - 1)

\* faulty variant: the infants are pushed before the children
PassengersToVec_InfantsFirst(passengers) ==
  PushTimes(PushTimes(PushTimes(PushTimes(<<>>,
    Adult, passengers.adults),
    InfantInSeat, passengers.infants_in_seat),
    InfantOnLap, passengers.infants_on_lap),
    Child, passengers.children)

\* protobuf.rs 34-60: impl From<Passengers> for Vec<Passenger>
PassengersToVec(passengers) ==
  PushTimes(PushTimes(PushTimes(PushTimes(<<>>,
    Adult, passengers.adults),
    Child, passengers.children),
    InfantInSeat, passengers.infants_in_seat),
    InfantOnLap, passengers.infants_on_lap)

\* faulty variant: an hour of 0 is taken for "not set" and left out
MapHour_ZeroAbsent(window, which) ==
  IF IsSome(window)
  THEN LET hour == IF which = "earliest" THEN Unwrap(window).earliest_hour
                   ELSE Unwrap(window).latest_hour
       IN  IF hour = 0 THEN None ELSE Some(hour)
  ELSE None

\* Option::map
MapHour(window, which) ==
  IF IsSome(window)
  THEN Some(IF which = "earliest" THEN Unwrap(window).earliest_hour
            ELSE Unwrap(window).latest_hour)
  ELSE None

\* protobuf.rs 72-91: the wire leg of one query leg
ProtoFlight(flight) ==
  [date                    |-> flight.date,
   from_flight             |-> Some([airport |-> flight.from_airport]),
   to_flight               |-> Some([airport |-> flight.to_airport]),
   max_stops               |-> flight.max_stops,
   airlines                |-> IF IsSome(flight.airlines) THEN Unwrap(flight.airlines) ELSE <<>>,
   departure_earliest_hour |-> MapHour(flight.departure_time, "earliest"),
   departure_latest_hour   |-> MapHour(flight.departure_time, "latest"),
   arrival_earliest_hour   |-> MapHour(flight.arrival_time, "earliest"),
   arrival_latest_hour     |-> MapHour(flight.arrival_time, "latest"),
   selected_flight         |-> None]

\* protobuf.rs 63-105
build_flight_info(flight_data, trip_type, passengers, seat_class) ==
  [data       |-> [i \in 1..Len(flight_data) |-> ProtoFlight(flight_data[i])],
   seat       |-> SeatToI32(seat_class),
   passengers |-> PassengersToVec(passengers),
   trip       |-> TripToI32(trip_type)]

\* faulty variant: the sub-message's two airports are exchanged
ProtoSelectedFlight_SwappedAirports(flight) ==
  [date                    |-> flight.departure_date,
   from_flight             |-> Some([airport |-> flight.from_airport]),
   to_flight               |-> Some([airport |-> flight.to_airport]),
   max_stops               |-> None,
   airlines                |-> <<>>,
   departure_earliest_hour |-> None,
   departure_latest_hour   |-> None,
   arrival_earliest_hour   |-> None,
   arrival_latest_hour     |-> None,
   selected_flight         |-> Some([from_airport   |-> flight.to_airport,
                                     departure_date |-> flight.departure_date,
                                     to_airport     |-> flight.from_airport,
                                     airline_code   |-> flight.airline_code,
                                     flight_number  |-> flight.flight_number])]

\* protobuf.rs 127-154: the wire leg of one selected flight
ProtoSelectedFlight(flight) ==
  [date                    |-> flight.departure_date,
   from_flight             |-> Some([airport |-> flight.from_airport]),
   to_flight               |-> Some([airport |-> flight.to_airport]),
   max_stops               |-> None,
   airlines                |-> <<>>,
   departure_earliest_hour |-> None,
   departure_latest_hour   |-> None,
   arrival_earliest_hour   |-> None,
   arrival_latest_hour     |-> None,
   selected_flight         |-> Some([from_airport   |-> flight.from_airport,
                                     departure_date |-> flight.departure_date,
                                     to_airport     |-> flight.to_airport,
                                     airline_code   |-> flight.airline_code,
                                     flight_number  |-> flight.flight_number])]

\* protobuf.rs 118-168
build_itinerary_info(selected_flights, trip_type, passengers, seat_class) ==
  [data       |-> [i \in 1..Len(selected_flights) |-> ProtoSelectedFlight(selected_flights[i])],
   seat       |-> SeatToI32(seat_class),
   passengers |-> PassengersToVec(passengers),
   trip       |-> TripToI32(trip_type)]

\* ---- the wire schema (flights.proto) as the generated Message impl writes it
\* the UTF-8 byte of a character of the model's alphabet (all ASCII)
Ascii(c) ==
  CASE c \in Digits -> 48 + DigitVal(c)
    [] c = "-" -> 45 [] c = "/" -> 47
    [] c = "A" -> 65 [] c = "D" -> 68 [] c = "F" -> 70 [] c = "J" -> 74
    [] c = "K" -> 75 [] c = "L" -> 76 [] c = "X" -> 88 [] c = "m" -> 109

Utf8(text) == [i \in 1..Len(text) |-> Ascii(text[i])]

RECURSIVE Flatten(_)
Flatten(seqs) == IF seqs = <<>> THEN <<>> ELSE Head(seqs) \o Flatten(Tail(seqs))

\* base-128 varint of n >= 0, least significant group first
RECURSIVE VarintU(_)
VarintU(n) == IF n < 128 THEN <<n>> ELSE <<(n % 128) + 128>> \o VarintU(n \div 128)

\* an int32 is written as the varint of its sign extension to 64 bits: ten
\* bytes for a negative value
VarintI32(n) ==
  IF n >= 0 THEN VarintU(n)
  ELSE LET low == (n + I32Max) + 1 IN
       << (low % 128) + 128,
          ((low \div 128) % 128) + 128,
          ((low \div (128 * 128)) % 128) + 128,
          ((low \div (128 * 128 * 128)) % 128) + 128,
          (low \div (128 * 128 * 128 * 128)) + 120 + 128,
          255, 255, 255, 255, 1 >>

\* a field key: wire type 0 is a varint, 2 a length-delimited value
Key(field, wire_type) == VarintU(field * 8 + wire_type)

LenDelimited(field, body) == Key(field, 2) \o VarintU(Len(body)) \o body

\* a proto3 string field: left out when empty
StringField(field, text) == IF text = <<>> THEN <<>> ELSE LenDelimited(field, Utf8(text))

\* an optional int32 field: written whenever present, zero included
OptionalInt32(field, o) ==
  IF IsSome(o) THEN Key(field, 0) \o VarintI32(Unwrap(o)) ELSE <<>>

\* a proto3 enum field: left out when zero
EnumField(field, v) == IF v = 0 THEN <<>> ELSE Key(field, 0) \o VarintI32(v)

\* an optional embedded message, given as the encoded bodies present (none or one)
MessageField(field, bodies) ==
  IF bodies = <<>> THEN <<>> ELSE LenDelimited(field, bodies[1])

EncodeAirport(a) == StringField(2, a.airport)

EncodeSelectedFlightData(f) ==
  StringField(1, f.from_airport) \o StringField(2, f.departure_date)
  \o StringField(3, f.to_airport) \o StringField(5, f.airline_code)
  \o StringField(6, f.flight_number)

EncodeFlightData(d) ==
  StringField(2, d.date)
  \o MessageField(4, [i \in 1..Len(d.selected_flight) |-> EncodeSelectedFlightData(d.selected_flight[i])])
  \o OptionalInt32(5, d.max_stops)
  \o Flatten([i \in 1..Len(d.airlines) |-> LenDelimited(6, Utf8(d.airlines[i]))])
  \o OptionalInt32(8, d.departure_earliest_hour)
  \o OptionalInt32(9, d.departure_latest_hour)
  \o OptionalInt32(10, d.arrival_earliest_hour)
  \o OptionalInt32(11, d.arrival_latest_hour)
  \o MessageField(13, [i \in 1..Len(d.from_flight) |-> EncodeAirport(d.from_flight[i])])
  \o MessageField(14, [i \in 1..Len(d.to_flight) |-> EncodeAirport(d.to_flight[i])])

\* Info::encode: data = 3, passengers = 8 (packed), seat = 9, trip = 19
EncodeInfo(m) ==
  Flatten([i \in 1..Len(m.data) |-> LenDelimited(3, EncodeFlightData(m.data[i]))])
  \o (IF m.passengers = <<>> THEN <<>>
      ELSE LenDelimited(8, Flatten([i \in 1..Len(m.passengers) |-> VarintI32(m.passengers[i])])))
  \o EnumField(9, m.seat)
  \o EnumField(19, m.trip)

\* ---------------------------------------------------------------- base64
UrlSafeAlphabet ==
  << "A", "B", "C", "D", "E", "F", "G", "H", "I", "J", "K", "L", "M",
     "N", "O", "P", "Q", "R", "S", "T", "U", "V", "W", "X", "Y", "Z",
     "a", "b", "c", "d", "e", "f", "g", "h", "i", "j", "k", "l", "m",
     "n", "o", "p", "q", "r", "s", "t", "u", "v", "w", "x", "y", "z",
     "0", "1", "2", "3", "4", "5", "6", "7", "8", "9", "-", "_" >>

StandardAlphabet == [i \in 1..64 |-> IF i = 63 THEN "+" ELSE IF i = 64 THEN "/"
                                     ELSE UrlSafeAlphabet[i]]

\* Engine::encode of a padding engine: 3 bytes give 4 characters, a final
\* group of 1 or 2 bytes gives 2 or 3 characters and "=" up to 4
Base64Char(alphabet, bytes, k) ==
  LET g  == (k - 1) \div 4
      j  == (k - 1) % 4
      n  == Len(bytes)
      b1 == bytes[3 * g + 1]
      b2 == IF 3 * g + 2 <= n THEN bytes[3 * g + 2] ELSE 0
      b3 == IF 3 * g + 3 <= n THEN bytes[3 * g + 3] ELSE 0
  IN  IF j = 0 THEN alphabet[(b1 \div 4) + 1]
      ELSE IF j = 1 THEN alphabet[(b1 % 4) * 16 + (b2 \div 16) + 1]
      ELSE IF j = 2
      THEN (IF 3 * g + 2 > n THEN "=" ELSE alphabet[(b2 % 16) * 4 + (b3 \div 64) + 1])
      ELSE (IF 3 * g + 3 > n THEN "=" ELSE alphabet[(b3 % 64) + 1])

Base64Encode(alphabet, bytes) ==
  [k \in 1..(4 * ((Len(bytes) + 2) \div 3)) |-> Base64Char(alphabet, bytes, k)]

\* faulty variant: the standard alphabet ("+" and "/") is used
encode_to_base64_Standard(m) == Base64Encode(StandardAlphabet, EncodeInfo(m))

\* faulty variant: the padding is left off
encode_to_base64_NoPad(m) ==
  SelectSeq(Base64Encode(UrlSafeAlphabet, EncodeInfo(m)), LAMBDA c : c # "=")

\* protobuf.rs 171-175: general_purpose::URL_SAFE.encode(&buf); encoding into
\* a Vec cannot fail
encode_to_base64(m) == Base64Encode(UrlSafeAlphabet, EncodeInfo(m))

\* Engine::decode of a padding engine: None for a length that is no multiple
\* of 4, a character outside the alphabet, misplaced padding or non-zero
\* trailing bits
Sextet(alphabet, c) ==
  IF \E i \in 1..Len(alphabet) : alphabet[i] = c
  THEN (CHOOSE i \in 1..Len(alphabet) : alphabet[i] = c) - 1
  ELSE -1

\* the number of "=" that end the text
Padding(chars) ==
  LET n == Len(chars) IN
  IF n >= 1 /\ chars[n] = "=" THEN (IF n >= 2 /\ chars[n - 1] = "=" THEN 2 ELSE 1) ELSE 0

Base64Byte(alphabet, chars, k) ==
  LET g  == (k - 1) \div 3
      j  == (k - 1) % 3
      v1 == Sextet(alphabet, chars[4 * g + 1])
      v2 == Sextet(alphabet, chars[4 * g + 2])
      v3 == Sextet(alphabet, chars[4 * g + 3])
      v4 == Sextet(alphabet, chars[4 * g + 4])
  IN  IF j = 0 THEN v1 * 4 + (v2 \div 16)
      ELSE IF j = 1 THEN (v2 % 16) * 16 + (v3 \div 4)
      ELSE (v3 % 4) * 64 + v4

Base64Decode(alphabet, chars) ==
  LET n    == Len(chars)
      npad == Padding(chars)
  IN  IF n % 4 # 0 THEN None
      ELSE IF \E i \in 1..(n - npad) : Sextet(alphabet, chars[i]) = -1 THEN None
      ELSE IF npad = 2 /\ Sextet(alphabet, chars[n - 2]) % 16 # 0 THEN None
      ELSE IF npad = 1 /\ Sextet(alphabet, chars[n - 1]) % 4 # 0 THEN None
      ELSE Some([k \in 1..(3 * (n \div 4) - npad) |-> Base64Byte(alphabet, chars, k)])

\* a varint of at most four bytes read at pos: [ok, value, next]
RECURSIVE ReadVarint(_, _, _, _)
ReadVarint(bytes, pos, scale, n) ==
  IF pos > Len(bytes) \/ n > 4 THEN [ok |-> FALSE, value |-> 0, next |-> pos]
  ELSE IF bytes[pos] < 128 THEN [ok |-> TRUE, value |-> bytes[pos] * scale, next |-> pos + 1]
  ELSE LET r == ReadVarint(bytes, pos + 1, scale * 128, n + 1) IN
       [ok |-> r.ok, value |-> (bytes[pos] - 128) * scale + r.value, next |-> r.next]

RECURSIVE ReadPacked(_, _)
ReadPacked(bytes, pos) ==
  IF pos > Len(bytes) THEN Some(<<>>)
  ELSE LET r == ReadVarint(bytes, pos, 1, 1) IN
       IF ~r.ok THEN None
       ELSE LET rest == ReadPacked(bytes, r.next) IN
            IF rest = None THEN None ELSE Some(<<r.value>> \o Unwrap(rest))

\* Info::decode: fields merged in the order met; data keeps the bytes of each
\* leg; a field of another number is skipped
RECURSIVE DecodeInfoFrom(_, _, _)
DecodeInfoFrom(bytes, pos, m) ==
  IF pos > Len(bytes) THEN Some(m)
  ELSE LET key == ReadVarint(bytes, pos, 1, 1) IN
       IF ~key.ok THEN None
       ELSE LET field == key.value \div 8
                wire  == key.value % 8
                v     == ReadVarint(bytes, key.next, 1, 1)
            IN  IF ~v.ok THEN None
                ELSE IF wire = 0
                THEN DecodeInfoFrom(bytes, v.next,
                       IF field = 9 THEN [m EXCEPT !.seat = v.value]
                       ELSE IF field = 19 THEN [m EXCEPT !.trip = v.value]
                       ELSE IF field = 8 THEN [m EXCEPT !.passengers = Append(@, v.value)]
                       ELSE m)
                ELSE IF wire = 2
                THEN LET stop == v.next + v.value - 1
                         body == SubSeq(bytes, v.next, stop)
                     IN  IF stop > Len(bytes) THEN None
                         ELSE IF field = 3
                         THEN DecodeInfoFrom(bytes, stop + 1, [m EXCEPT !.data = Append(@, body)])
                         ELSE IF field = 8
                         THEN LET ps == ReadPacked(body, 1) IN
                              IF ps = None THEN None
                              ELSE DecodeInfoFrom(bytes, stop + 1,
                                     [m EXCEPT !.passengers = @ \o Unwrap(ps)])
                         ELSE DecodeInfoFrom(bytes, stop + 1, m)
                ELSE None

DecodeInfo(bytes) ==
  DecodeInfoFrom(bytes, 1, [data |-> <<>>, seat |-> 0, passengers |-> <<>>, trip |-> 0])

\* ------------------------------------------------ requests the model encodes
SampleDate == <<"2", "0", "2", "5", "-", "0", "8", "-", "1", "5">>

Lax == <<"L", "A", "X">>

Jfk == <<"J", "F", "K">>

FlightData(max_stops, airlines, departure_time, arrival_time) ==
  [date |-> SampleDate, from_airport |-> Lax, to_airport |-> Jfk,
   max_stops |-> max_stops, airlines |-> airlines,
   departure_time |-> departure_time, arrival_time |-> arrival_time]

TimeWindow(earliest_hour, latest_hour) ==
  [earliest_hour |-> earliest_hour, latest_hour |-> latest_hour]

\* query legs: no filter; a stop bound and an airline; a zero stop bound, an
\* empty airline set and windows that start at hour 0; a negative stop bound;
\* a city leg (location identifiers instead of airport codes)
LegSamples ==
  { FlightData(None, None, None, None),
    FlightData(Some(1), Some(<< <<"A", "A">> >>), None, None),
    FlightData(Some(0), Some(<<>>), Some(TimeWindow(0, 11)), Some(TimeWindow(15, 23))),
    FlightData(Some(-1), None, None, Some(TimeWindow(23, 0))),
    [FlightData(None, None, None, None) EXCEPT !.from_airport = <<"/", "m", "/", "0", "4">>] }

DefaultPassengers ==
  [adults |-> 1, children |-> 0, infants_in_seat |-> 0, infants_on_lap |-> 0]

PassengerCounts ==
  [adults : 0..MaxPassengers, children : 0..MaxPassengers,
   infants_in_seat : 0..MaxPassengers, infants_on_lap : 0..MaxPassengers]

SearchRequests ==
  [flights : Strings(LegSamples, MaxLegs), trip_type : TripTypes,
   passengers : {DefaultPassengers}, seat_class : SeatClasses]
  \cup
  [flights : {<<FlightData(None, None, None, None)>>}, trip_type : {"OneWay"},
   passengers : PassengerCounts, seat_class : {"Economy"}]

SelectedSamples ==
  { [from_airport |-> Lax, to_airport |-> Jfk, departure_date |-> SampleDate,
     airline_code |-> <<"A", "A">>, flight_number |-> <<"2", "7", "4">>],
    [from_airport |-> Jfk, to_airport |-> Lax, departure_date |-> SampleDate,
     airline_code |-> <<"D", "L">>, flight_number |-> <<"1">>] }

ItineraryRequests ==
  [selected_flights : Strings(SelectedSamples, MaxLegs), trip_type : TripTypes,
   passengers : {DefaultPassengers, [DefaultPassengers EXCEPT !.children = 2]},
   seat_class : SeatClasses]

IsSearch(r) == "flights" \in DOMAIN r

\* ------------------------------------------------------------ encoder actions
BuildFlightInfo ==
  /\ IsSome(request) /\ IsSearch(Unwrap(request)) /\ info = None
  /\ LET r == Unwrap(request) IN
     info' = Some(build_flight_info(r.flights, r.trip_type, r.passengers, r.seat_class))
  /\ UNCHANGED <<request, encoded, html, result, windowVars, clientVars, cacheVars, parserVars, entryVars, resolverVars>>

BuildItineraryInfo ==
  /\ IsSome(request) /\ ~IsSearch(Unwrap(request)) /\ info = None
  /\ LET r == Unwrap(request) IN
     info' = Some(build_itinerary_info(r.selected_flights, r.trip_type, r.passengers,
                                       r.seat_class))
  /\ UNCHANGED <<request, encoded, html, result, windowVars, clientVars, cacheVars, parserVars, entryVars, resolverVars>>

EncodeToBase64 ==
  /\ IsSome(info) /\ encoded = None
  /\ encoded' = Some(encode_to_base64(Unwrap(info)))
  /\ UNCHANGED <<request, info, html, result, windowVars, clientVars, cacheVars, parserVars, entryVars, resolverVars>>

InitEncoder ==
  /\ request \in {Some(r) : r \in SearchRequests \cup ItineraryRequests}
  /\ info = None
  /\ encoded = None
  /\ html = None
  /\ result = None
  /\ WindowIdle
  /\ ClientIdle
  /\ CacheIdle
  /\ ParserIdle /\ EntryIdle /\ ResolverIdle

NextEncoder == BuildFlightInfo \/ BuildItineraryInfo \/ EncodeToBase64

SpecEncoder == InitEncoder /\ [][NextEncoder]_vars

\* ------------------------------------------------------------ encoder claims
Built == IsSome(request) /\ IsSome(info)

Encoded == Built /\ IsSome(encoded)

\* C1: for counts a, c, i, o >= 0 the wire passenger sequence has length
\* a+c+i+o: a Adult values, then c Child, then i InfantInSeat, then o
\* InfantOnLap.
C1_PassengerOrder ==
  Built =>
    LET p == Unwrap(request).passengers
        v == Unwrap(info).passengers
        a == p.adults
        c == p.children
        i == p.infants_in_seat
        o == p.infants_on_lap
    IN  (a >= 0 /\ c >= 0 /\ i >= 0 /\ o >= 0) =>
          /\ Len(v) = a + c + i + o
          /\ \A k \in 1..Len(v) :
               v[k] = IF k <= a THEN Adult
                      ELSE IF k <= a + c THEN Child
                      ELSE IF k <= a + c + i THEN InfantInSeat
                      ELSE InfantOnLap

\* the conversion test of protobuf.rs: 2 adults, 1 child, 0 infants in seat,
\* 1 infant on lap
C1_Witness ==
  /\ Built
  /\ Unwrap(request).passengers =
       [adults |-> 2, children |-> 1, infants_in_seat |-> 0, infants_on_lap |-> 1]
  /\ Unwrap(info).passengers = <<Adult, Adult, Child, InfantOnLap>>

\* C9: decoding the encoded string (base64, then the wire schema) gives back
\* the leg count, the seat enum, the trip enum and the passenger sequence.
C9_RoundTrip ==
  Encoded =>
    LET bytes == Base64Decode(UrlSafeAlphabet, Unwrap(encoded)) IN
    /\ IsSome(bytes)
    /\ LET d == DecodeInfo(Unwrap(bytes)) IN
       /\ IsSome(d)
       /\ Len(Unwrap(d).data) = Len(Unwrap(info).data)
       /\ Unwrap(d).seat = Unwrap(info).seat
       /\ Unwrap(d).trip = Unwrap(info).trip
       /\ Unwrap(d).passengers = Unwrap(info).passengers

\* a two-leg itinerary message with three passengers, encoded
C9_Witness ==
  /\ Encoded
  /\ ~IsSearch(Unwrap(request))
  /\ Len(Unwrap(info).data) = 2
  /\ Unwrap(info).passengers = <<Adult, Child, Child>>
  /\ Unwrap(info).seat = 4
  /\ Len(Unwrap(DecodeInfo(Unwrap(Base64Decode(UrlSafeAlphabet, Unwrap(encoded))))).data) = 2

UrlSafeChars == {UrlSafeAlphabet[i] : i \in 1..Len(UrlSafeAlphabet)} \cup {"="}

\* C10: the encoded string is the URL-safe base64 text of the serialized
\* bytes: 4 characters per 3 bytes, only A-Z, a-z, 0-9, "-", "_" and "="
\* padding, never "+" or "/".
C10_UrlSafeText ==
  Encoded =>
    LET text  == Unwrap(encoded)
        bytes == EncodeInfo(Unwrap(info))
    IN  /\ \A k \in 1..Len(text) : text[k] \in UrlSafeChars /\ text[k] \notin {"+", "/"}
        /\ Len(text) = 4 * ((Len(bytes) + 2) \div 3)
        /\ \A k \in 1..Len(text) : text[k] = "=" => k > Len(text) - 2

\* a message whose bytes need the two characters that set the URL-safe
\* alphabet apart (a negative stop bound is ten bytes of all-one groups)
C10_Witness ==
  /\ Encoded
  /\ \E k \in 1..Len(Unwrap(encoded)) : Unwrap(encoded)[k] = "_"

\* C11: the encoded string is valid input for a standard-alphabet base64
\* decoder, and the bytes it decodes to give back the passengers, the seat
\* and the trip of the message.
C11_StandardDecode ==
  Encoded =>
    LET bytes == Base64Decode(StandardAlphabet, Unwrap(encoded)) IN
    /\ IsSome(bytes)
    /\ LET d == DecodeInfo(Unwrap(bytes)) IN
       /\ IsSome(d)
       /\ Unwrap(d).seat = Unwrap(info).seat
       /\ Unwrap(d).trip = Unwrap(info).trip
       /\ Unwrap(d).passengers = Unwrap(info).passengers

\* C12: in the message build_flight_info builds, the legs keep the caller's
\* count and order, and for every leg: max_stops is present exactly when the
\* query leg sets it; the two departure hours are both present exactly when a
\* departure window is given and then equal its two hours (hour 0 is a
\* present 0); the same for the arrival hours; an absent optional is absent,
\* never 0; a missing airline set becomes the empty list.
C12_SearchLegFields ==
  (Built /\ IsSearch(Unwrap(request))) =>
    LET legs == Unwrap(request).flights
        data == Unwrap(info).data
    IN  /\ Len(data) = Len(legs)
        /\ \A i \in 1..Len(legs) :
             LET q == legs[i]
                 w == data[i]
             IN  /\ w.date = q.date
                 /\ w.from_flight = Some([airport |-> q.from_airport])
                 /\ w.to_flight = Some([airport |-> q.to_airport])
                 /\ IsSome(w.max_stops) <=> IsSome(q.max_stops)
                 /\ IsSome(q.max_stops) => Unwrap(w.max_stops) = Unwrap(q.max_stops)
                 /\ IsSome(q.departure_time) =>
                      /\ w.departure_earliest_hour = Some(Unwrap(q.departure_time).earliest_hour)
                      /\ w.departure_latest_hour = Some(Unwrap(q.departure_time).latest_hour)
                 /\ ~IsSome(q.departure_time) =>
                      w.departure_earliest_hour = None /\ w.departure_latest_hour = None
                 /\ IsSome(q.arrival_time) =>
                      /\ w.arrival_earliest_hour = Some(Unwrap(q.arrival_time).earliest_hour)
                      /\ w.arrival_latest_hour = Some(Unwrap(q.arrival_time).latest_hour)
                 /\ ~IsSome(q.arrival_time) =>
                      w.arrival_earliest_hour = None /\ w.arrival_latest_hour = None
                 /\ w.airlines = IF IsSome(q.airlines) THEN Unwrap(q.airlines) ELSE <<>>

\* two legs: a window that starts at hour 0 and a zero stop bound, then a leg
\* with no departure window, no airline set and an arrival window ending at 0
C12_Witness ==
  /\ Built
  /\ IsSearch(Unwrap(request))
  /\ Len(Unwrap(info).data) = 2
  /\ Unwrap(info).data[1].departure_earliest_hour = Some(0)
  /\ Unwrap(info).data[1].max_stops = Some(0)
  /\ Unwrap(request).flights[2].departure_time = None
  /\ Unwrap(request).flights[2].airlines = None
  /\ Unwrap(info).data[2].departure_earliest_hour = None
  /\ Unwrap(info).data[2].arrival_latest_hour = Some(0)
  /\ Unwrap(info).data[2].airlines = <<>>

\* C13: the selected-flight sub-message is on every leg build_itinerary_info
\* builds and on no leg build_flight_info builds; an itinerary leg's
\* sub-message carries the selected flight's origin, destination, date,
\* airline code and flight number, the leg's own date, origin and destination
\* are those of the selected flight, and the leg has no search filter.
C13_SelectedFlightLegs ==
  Built =>
    LET r    == Unwrap(request)
        data == Unwrap(info).data
    IN  IF IsSearch(r)
        THEN \A i \in 1..Len(data) : data[i].selected_flight = None
        ELSE /\ Len(data) = Len(r.selected_flights)
             /\ \A i \in 1..Len(data) :
                  LET f == r.selected_flights[i]
                      w == data[i]
                  IN  /\ IsSome(w.selected_flight)
                      /\ Unwrap(w.selected_flight).from_airport = f.from_airport
                      /\ Unwrap(w.selected_flight).to_airport = f.to_airport
                      /\ Unwrap(w.selected_flight).departure_date = f.departure_date
                      /\ Unwrap(w.selected_flight).airline_code = f.airline_code
                      /\ Unwrap(w.selected_flight).flight_number = f.flight_number
                      /\ w.date = f.departure_date
                      /\ w.from_flight = Some([airport |-> f.from_airport])
                      /\ w.to_flight = Some([airport |-> f.to_airport])
                      /\ w.max_stops = None
                      /\ w.airlines = <<>>
                      /\ w.departure_earliest_hour = None
                      /\ w.departure_latest_hour = None
                      /\ w.arrival_earliest_hour = None
                      /\ w.arrival_latest_hour = None

\* a round trip of two selected flights, out on AA 274 and back on DL 1
C13_Witness ==
  /\ Built
  /\ ~IsSearch(Unwrap(request))
  /\ Len(Unwrap(info).data) = 2
  /\ Unwrap(Unwrap(info).data[1].selected_flight).flight_number = <<"2", "7", "4">>
  /\ Unwrap(Unwrap(info).data[1].selected_flight).from_airport = Lax
  /\ Unwrap(Unwrap(info).data[2].selected_flight).airline_code = <<"D", "L">>
  /\ Unwrap(Unwrap(info).data[2].selected_flight).from_airport = Jfk

\* ------------------------------------------------------ the response decoder
\* A flight item (one match of flight_items_selector) is given by the matches
\* of each field selector inside it:
\*   name, times, duration, stops, price : texts of the matched elements
\*   info    : the data-travelimpactmodelwebsiteurl attribute (an Option) of
\*             each .NZRfve element
\*   codes   : texts of the airport-code elements
\*   summary : the aria-label attribute (an Option) of each .JMc5Xc element
\*   layover : [label |-> Option aria-label, codes |-> texts] of each
\*             layover-candidate element
\* A document is [groups |-> the items of each flight group in document
\* order, current_price |-> texts of the price-indicator elements].

Unknown == <<"U", "n", "k", "n", "o", "w", "n">>

Nonstop == <<"N", "o", "n", "s", "t", "o", "p">>

Dollar == <<"$">>

DollarZero == <<"$", "0">>

ItineraryKey == "itinerary="

\* faulty variant: the text of a missing element is left empty instead of the default
FirstOr_Empty(matches, default) == IF matches = <<>> THEN <<>> ELSE matches[1]

\* select(..).next().map(f).unwrap_or_else(|| default)
FirstOr(matches, default) == IF matches = <<>> THEN default ELSE matches[1]

\* faulty variant: an unparsable stops text counts as nonstop
ParseStops_ZeroOnFailure(stops_text) ==
  IF stops_text = Nonstop THEN 0
  ELSE LET tokens == SplitWhitespace(stops_text) IN
       IF tokens = <<>> THEN 0
       ELSE LET parsed == ParseI32(tokens[1]) IN
            IF IsSome(parsed) THEN Unwrap(parsed) ELSE 0

\* client.rs 164-173
ParseStops(stops_text) ==
  IF stops_text = Nonstop THEN 0
  ELSE IF stops_text = Unknown THEN -1
  ELSE LET tokens == SplitWhitespace(stops_text) IN
       IF tokens = <<>> THEN -1
       ELSE LET parsed == ParseI32(tokens[1]) IN
            IF IsSome(parsed) THEN Unwrap(parsed) ELSE -1

\* The leftmost match of the regex ([^\d]+)(\d+): the first maximal run of
\* non-digits that is directly followed by a digit, and the maximal run of
\* digits after it.  None when the text has no such run.
RunEnd(s, i, digit) ==
  LET stops == {j \in i..Len(s) : IsDigit(s[j]) # digit} IN
  IF stops = {} THEN Len(s)
  ELSE (CHOOSE j \in stops : \A m \in stops : j <= m) - 1

PriceCaptures(s) ==
  LET starts == {i \in 1..Len(s) :
                   /\ ~IsDigit(s[i])
                   /\ RunEnd(s, i, FALSE) < Len(s)} IN
  IF starts = {} THEN None
  ELSE LET i == CHOOSE a \in starts : \A b \in starts : a <= b
           j == RunEnd(s, i, FALSE)
           k == RunEnd(s, j + 1, TRUE)
       IN  Some([symbol |-> SubSeq(s, i, j), digits |-> SubSeq(s, j + 1, k)])

\* client.rs 239-265
parse_price(price_text) ==
  LET captures == PriceCaptures(price_text) IN
  IF IsSome(captures)
  THEN LET parsed == ParseI32(Unwrap(captures).digits) IN
       [amount   |-> IF IsSome(parsed) THEN Unwrap(parsed) ELSE 0,
        currency |-> Trim(Unwrap(captures).symbol)]
  ELSE LET parsed == ParseI32(SelectSeq(price_text, IsDigit)) IN
       [amount   |-> IF IsSome(parsed) THEN Unwrap(parsed) ELSE 0,
        currency |-> Dollar]

\* The leftmost match of the regex itinerary=([^&]+) in a URL whose elements
\* are single characters and the literal ItineraryKey: the first key that is
\* directly followed by an element other than "&"; the capture is the
\* maximal run without "&" after it.
ItineraryCapture(url) ==
  LET starts == {i \in 1..(Len(url) - 1) : url[i] = ItineraryKey /\ url[i + 1] # "&"} IN
  IF starts = {} THEN None
  ELSE LET i    == CHOOSE a \in starts : \A b \in starts : a <= b
           amps == {j \in (i + 1)..Len(url) : url[j] = "&"}
           e    == IF amps = {} THEN Len(url)
                   ELSE (CHOOSE j \in amps : \A m \in amps : j <= m) - 1
       IN  Some(SubSeq(url, i + 1, e))

\* client.rs 291-301: one FlightLeg per comma-separated leg with at least 4
\* hyphen-separated parts
RECURSIVE LegsOf(_)
LegsOf(legs) ==
  IF legs = <<>> THEN <<>>
  ELSE LET parts == Split(Head(legs), "-") IN
       (IF Len(parts) >= 4
        THEN <<[airline_code |-> parts[3], flight_number |-> parts[4]]>>
        ELSE <<>>) \o LegsOf(Tail(legs))

\* faulty variant: the list of legs is returned even when it is empty
parse_flight_info_from_url_EmptyList(url) ==
  LET captures == ItineraryCapture(url) IN
  IF IsSome(captures) THEN Some(LegsOf(Split(Unwrap(captures), ","))) ELSE None

\* client.rs 278-309
parse_flight_info_from_url(url) ==
  LET captures == ItineraryCapture(url) IN
  IF IsSome(captures)
  THEN LET flight_legs == LegsOf(Split(Unwrap(captures), ",")) IN
       IF flight_legs # <<>> THEN Some(flight_legs) ELSE None
  ELSE None

\* client.rs 267-276: only the first .NZRfve element is looked at
extract_flight_info(item) ==
  IF item.info # <<>> /\ IsSome(item.info[1])
  THEN parse_flight_info_from_url(Unwrap(item.info[1]))
  ELSE None

\* .map(|el| el.text().trim()).filter(|s| !s.is_empty())
RECURSIVE TrimmedNonEmpty(_)
TrimmedNonEmpty(texts) ==
  IF texts = <<>> THEN <<>>
  ELSE (IF Trim(Head(texts)) = <<>> THEN <<>> ELSE <<Trim(Head(texts))>>)
       \o TrimmedNonEmpty(Tail(texts))

\* faulty variant: a single code is reported as the destination
extract_airport_codes_SingleIsDestination(item) ==
  LET airport_codes == TrimmedNonEmpty(item.codes) IN
  IF Len(airport_codes) >= 2 THEN <<Some(airport_codes[1]), Some(airport_codes[2])>>
  ELSE IF Len(airport_codes) = 1 THEN <<None, Some(airport_codes[1])>>
  ELSE <<None, None>>

\* client.rs 311-330: <<origin, destination>>
extract_airport_codes(item) ==
  LET airport_codes == TrimmedNonEmpty(item.codes) IN
  IF Len(airport_codes) >= 2 THEN <<Some(airport_codes[1]), Some(airport_codes[2])>>
  ELSE IF Len(airport_codes) = 1 THEN <<Some(airport_codes[1]), None>>
  ELSE <<None, None>>

\* char::to_lowercase on the letters of the model's alphabet
ToLowerChar(c) ==
  CASE c = "L" -> "l" [] c = "A" -> "a" [] c = "Y" -> "y" [] c = "O" -> "o"
    [] c = "V" -> "v" [] c = "E" -> "e" [] c = "R" -> "r" [] c = "D" -> "d"
    [] c = "X" -> "x" [] c = "J" -> "j" [] c = "F" -> "f" [] c = "K" -> "k"
    [] c = "B" -> "b" [] c = "C" -> "c" [] c = "G" -> "g" [] c = "H" -> "h"
    [] c = "I" -> "i" [] c = "M" -> "m" [] c = "N" -> "n" [] c = "P" -> "p"
    [] c = "Q" -> "q" [] c = "S" -> "s" [] c = "T" -> "t" [] c = "U" -> "u"
    [] c = "W" -> "w" [] c = "Z" -> "z"
    [] OTHER -> c

ToLowercase(s) == [i \in 1..Len(s) |-> ToLowerChar(s[i])]

\* str::contains
Contains(s, sub) ==
  \E i \in 1..(Len(s) - Len(sub) + 1) : SubSeq(s, i, i + Len(sub) - 1) = sub

LayoverWord == <<"l", "a", "y", "o", "v", "e", "r">>

\* faulty variant: the label is searched as it is written, without lowering it
RECURSIVE LayoverFrom_CaseSensitive(_)
LayoverFrom_CaseSensitive(elements) ==
  IF elements = <<>> THEN <<None, None>>
  ELSE LET element    == Head(elements)
           aria_label == IF IsSome(element.label) THEN Unwrap(element.label) ELSE <<>>
       IN  IF Contains(aria_label, LayoverWord)
           THEN LET airport_codes == TrimmedNonEmpty(element.codes) IN
                <<IF airport_codes = <<>> THEN None ELSE Some(airport_codes),
                  IF aria_label = <<>> THEN None ELSE Some(aria_label)>>
           ELSE LayoverFrom_CaseSensitive(Tail(elements))

\* client.rs 332-364: <<layovers, layover_description>>
RECURSIVE LayoverFrom(_)
LayoverFrom(elements) ==
  IF elements = <<>> THEN <<None, None>>
  ELSE LET element    == Head(elements)
           aria_label == IF IsSome(element.label) THEN Unwrap(element.label) ELSE <<>>
       IN  IF Contains(ToLowercase(aria_label), LayoverWord)
           THEN LET airport_codes == TrimmedNonEmpty(element.codes) IN
                <<IF airport_codes = <<>> THEN None ELSE Some(airport_codes),
                  IF aria_label = <<>> THEN None ELSE Some(aria_label)>>
           ELSE LayoverFrom(Tail(elements))

extract_layover_info(item) == LayoverFrom(item.layover)

\* client.rs 123-214: the Flight pushed for one processed item
ExtractItem(item, is_best_flight) ==
  LET name       == FirstOr([i \in 1..Len(item.name) |-> Trim(item.name[i])], Unknown)
      times      == [i \in 1..Len(item.times) |-> Trim(item.times[i])]
      departure  == IF Len(times) >= 1 THEN times[1] ELSE Unknown
      arrival    == IF Len(times) >= 2 THEN times[2] ELSE Unknown
      duration   == FirstOr(item.duration, Unknown)
      stops_text == FirstOr(item.stops, Unknown)
      price_text == FirstOr([i \in 1..Len(item.price) |-> RemoveCommas(item.price[i])],
                            DollarZero)
      airports   == extract_airport_codes(item)
      layover    == extract_layover_info(item)
  IN  [is_best             |-> is_best_flight,
       name                |-> name,
       departure           |-> JoinSpace(SplitWhitespace(departure)),
       arrival             |-> JoinSpace(SplitWhitespace(arrival)),
       duration            |-> duration,
       stops               |-> ParseStops(stops_text),
       price               |-> parse_price(price_text),
       flight_legs         |-> extract_flight_info(item),
       origin_airport      |-> airports[1],
       destination_airport |-> airports[2],
       flight_summary      |-> IF item.summary = <<>> THEN None
                               ELSE Some(IF IsSome(item.summary[1])
                                         THEN Unwrap(item.summary[1]) ELSE <<>>),
       layovers            |-> layover[1],
       layover_description |-> layover[2]]

\* faulty variant: the trailing entry of a later group is processed like any other
ItemsToProcess_KeepAll(i, flight_items) == flight_items

\* client.rs 115-121: all items of the first group, all but the last of
\* every other group (take(len.saturating_sub(1)))
ItemsToProcess(i, flight_items) ==
  IF i = 1 THEN flight_items
  ELSE SubSeq(flight_items, 1, IF Len(flight_items) = 0 THEN 0 ELSE Len(flight_items) - 1)

\* client.rs 111-216: the flights pushed for groups i.. of the document
RECURSIVE FlightsFrom(_, _)
FlightsFrom(groups, i) ==
  IF i > Len(groups) THEN <<>>
  ELSE LET items == ItemsToProcess(i, groups[i]) IN
       [k \in 1..Len(items) |-> ExtractItem(items[k], i = 1)] \o FlightsFrom(groups, i + 1)

ParseError == "ParseError"

\* faulty variant: an empty flight list is returned as a success
FlightsOrError_NeverFails(flights) == [ok |-> TRUE, flights |-> flights]

\* client.rs 218-222
FlightsOrError(flights) ==
  IF flights = <<>> THEN [ok |-> FALSE, err |-> ParseError]
  ELSE [ok |-> TRUE, flights |-> flights]

\* client.rs 108-223
extract_flights(document) == FlightsOrError(FlightsFrom(document.groups, 1))

UnknownPrice == <<"u", "n", "k", "n", "o", "w", "n">>

\* client.rs 225-237
extract_current_price(document) ==
  IF document.current_price # <<>> /\ document.current_price[1] # <<>>
  THEN document.current_price[1]
  ELSE UnknownPrice

\* client.rs 97-106
parse_response(document) ==
  LET flights == extract_flights(document) IN
  IF ~flights.ok THEN flights
  ELSE [ok            |-> TRUE,
        current_price |-> extract_current_price(document),
        flights       |-> flights.flights]

\* ------------------------------------------------- documents the model decodes
Item(name, times, duration, stops, price, links, codes, summary, layover) ==
  [name |-> name, times |-> times, duration |-> duration, stops |-> stops,
   price |-> price, info |-> links, codes |-> codes, summary |-> summary,
   layover |-> layover]

\* an item in which no field selector matches anything
BlankItem == Item(<<>>, <<>>, <<>>, <<>>, <<>>, <<>>, <<>>, <<>>, <<>>)

DigitChar(n) ==
  CASE n = 0 -> "0" [] n = 1 -> "1" [] n = 2 -> "2" [] n = 3 -> "3" [] n = 4 -> "4"
    [] n = 5 -> "5" [] n = 6 -> "6" [] n = 7 -> "7" [] n = 8 -> "8" [] n = 9 -> "9"

SampleUrl == <<"?", ItineraryKey, "L", "-", "J", "-", "A", "-", "2", "-", "D">>

\* a fully marked-up item; its name tells the group g and the position k
SampleItem(g, k) ==
  Item(<<<<"F", DigitChar(g), DigitChar(k)>>>>,
       <<<<"8", ":", "0", "0", " ", "A", "M">>, <<"4", ":", "3", "0", " ", "P", "M">>>>,
       <<<<"5", " ", "h", "r">>>>,
       <<<<"1", " ", "s", "t", "o", "p">>>>,
       <<<<"$", "1", ",", "2", "3", "4">>>>,
       <<Some(SampleUrl)>>,
       <<<<"L">>, <<"J">>>>,
       <<Some(<<"s">>)>>,
       <<[label |-> Some(<<"L", "a", "y", "o", "v", "e", "r">>), codes |-> <<<<"O">>>>]>>)

Document(groups) == [groups |-> groups, current_price |-> <<<<"l", "o", "w">>>>]

\* documents of up to MaxGroups groups of up to MaxItems items: a group shape
\* [n, blank] has n fully marked-up items, except that item number blank
\* (when blank > 0) is blank
GroupShapes == {sh \in [n : 0..MaxItems, blank : 0..MaxItems] : sh.blank <= sh.n}

StructDocs ==
  {Document([g \in 1..Len(shape) |->
               [k \in 1..shape[g].n |->
                  IF shape[g].blank = k THEN BlankItem ELSE SampleItem(g, k)]]) :
     shape \in Strings(GroupShapes, MaxGroups)}

\* a document without any flight group and without a price indicator
EmptyDoc == [groups |-> <<>>, current_price |-> <<>>]

OneItemDoc(item) == Document(<<<<item>>>>)

\* one item with every combination of missing name, times, duration, stops
\* and price
FieldItems ==
  {[SampleItem(1, 1) EXCEPT !.name = IF m.name THEN @ ELSE <<>>,
                            !.times = SubSeq(@, 1, m.times),
                            !.duration = IF m.duration THEN @ ELSE <<>>,
                            !.stops = IF m.stops THEN @ ELSE <<>>,
                            !.price = IF m.price THEN @ ELSE <<>>] :
     m \in [name : BOOLEAN, times : 0..2, duration : BOOLEAN, stops : BOOLEAN,
            price : BOOLEAN]}

StopsAlphabet == {"1", "3", "-", "+", " ", "s"}

StopsTexts ==
  Strings(StopsAlphabet, MaxStopsLen) \cup
  { Nonstop, Unknown,
    <<" ">> \o Nonstop, Nonstop \o <<" ">>,
    <<"n", "o", "n", "s", "t", "o", "p">>,
    <<"1", " ", "s", "t", "o", "p">>,
    <<"3", " ", "s", "t", "o", "p", "s">>,
    <<"-", "5", " ", "s", "t", "o", "p", "s">>,
    <<"2", "1", "4", "7", "4", "8", "3", "6", "4", "7">>,
    <<"2", "1", "4", "7", "4", "8", "3", "6", "4", "8", " ", "s">>,
    <<"-", "2", "1", "4", "7", "4", "8", "3", "6", "4", "8">>,
    <<"-", "2", "1", "4", "7", "4", "8", "3", "6", "4", "9">>,
    <<"0", "0", "0", "0", "0", "0", "0", "0", "0", "0", "0", "7">> }

StopsItems == {[SampleItem(1, 1) EXCEPT !.stops = <<t>>] : t \in StopsTexts}

\* "E" stands for the euro sign
PriceAlphabet == {"$", "E", "1", "0", ",", " "}

PriceTexts ==
  Strings(PriceAlphabet, MaxPriceLen) \cup
  { <<"$", "1", ",", "2", "3", "4">>,
    <<"E", "5", "6", "0">>,
    <<"5", "6", "0", " ", "E">>,
    <<"1", " ", "2", "3", "4">>,
    <<"U", "S", "$", " ", "1", "2">>,
    <<"f", "r", "e", "e">>,
    <<"$", "2", ",", "1", "4", "7", ",", "4", "8", "3", ",", "6", "4", "7">>,
    <<"$", "2", ",", "1", "4", "7", ",", "4", "8", "3", ",", "6", "4", "8">>,
    <<"9", "9", "9", "9", "9", "9", "9", "9", "9", "9">> }

PriceItems == {[SampleItem(1, 1) EXCEPT !.price = <<t>>] : t \in PriceTexts}

\* Deep-link URLs are rendered from a shape [prefix, legs, suffix]: a leg is
\* [sample, n], the first n of the five fields ORIGIN-DEST-AIRLINE-NUMBER-DATE
\* of one of two sample legs (the second has an empty flight number).
LegFields(sample) ==
  IF sample = 1
  THEN <<<<"L">>, <<"J">>, <<"A", "A">>, <<"2", "7", "4">>, <<"D">>>>
  ELSE <<<<"A">>, <<"J">>, <<"F", "9">>, <<>>, <<"D">>>>

RECURSIVE Join(_, _)
Join(parts, sep) ==
  IF parts = <<>> THEN <<>>
  ELSE IF Len(parts) = 1 THEN parts[1]
  ELSE parts[1] \o <<sep>> \o Join(Tail(parts), sep)

RenderLeg(leg) == Join(SubSeq(LegFields(leg.sample), 1, leg.n), "-")

RenderUrl(u) ==
  u.prefix \o Join([i \in 1..Len(u.legs) |-> RenderLeg(u.legs[i])], ",") \o u.suffix

LegShapes == [sample : 1..2, n : 1..5]

KeyPrefix == <<"?", ItineraryKey>>

UrlPrefixes ==
  { <<"?">>,
    KeyPrefix,
    <<"?", "x", "&", ItineraryKey>>,
    <<"?", ItineraryKey, "&", ItineraryKey>> }

UrlSuffixes == { <<>>, <<"&", "x", "-", "y">> }

UrlShapes ==
  [prefix : {KeyPrefix}, legs : Strings(LegShapes, MaxUrlLegs), suffix : {<<>>}]
  \cup
  [prefix : UrlPrefixes,
   legs   : { <<>>,
              <<[sample |-> 1, n |-> 5]>>,
              <<[sample |-> 1, n |-> 2], [sample |-> 2, n |-> 4]>> },
   suffix : UrlSuffixes]

UrlItems ==
  {[SampleItem(1, 1) EXCEPT !.info = <<Some(RenderUrl(u))>>] : u \in UrlShapes}
  \cup
  {[SampleItem(1, 1) EXCEPT !.info = i] :
     i \in { <<>>, <<None>>, <<None, Some(SampleUrl)>> }}

\* the texts of the short-code nodes of an entry: a code, a code with blanks
\* around it, a node of blanks only
CodeTexts == { <<"L">>, <<" ", "J", " ">>, <<" ">> }

CodesItems == {[SampleItem(1, 1) EXCEPT !.codes = c] : c \in Strings(CodeTexts, MaxCodes)}

\* layover-candidate elements: no label; a label about something else; three
\* layover labels in different case, with one, none and two nested codes
\* (and a blank node between the two)
LayoverCandidates ==
  { [label |-> None, codes |-> << <<"X">> >>],
    [label |-> Some(<<"1", " ", "s", "t", "o", "p">>), codes |-> << <<"X">> >>],
    [label |-> Some(<<"L", "a", "y", "o", "v", "e", "r", " ", "D">>), codes |-> << <<"D">> >>],
    [label |-> Some(<<"a", " ", "L", "A", "Y", "O", "V", "E", "R">>), codes |-> <<>>],
    [label |-> Some(<<"l", "a", "y", "O", "v", "e", "r">>),
     codes |-> << <<"O">>, <<" ">>, <<" ", "A">> >>] }

LayoverItems ==
  {[SampleItem(1, 1) EXCEPT !.layover = l] : l \in Strings(LayoverCandidates, MaxCandidates)}

Documents ==
  StructDocs \cup {EmptyDoc}
  \cup {OneItemDoc(item) : item \in FieldItems \cup StopsItems \cup PriceItems \cup UrlItems
                                      \cup CodesItems \cup LayoverItems}

\* ------------------------------------------------------------ decoder actions
\* FlightResponseParser::parse_response(html) on the document handed to the
\* parser; the parser itself has no state that a call could change.
ParseResponse ==
  /\ IsSome(html)
  /\ result = None
  /\ result' = Some(parse_response(Unwrap(html)))
  /\ UNCHANGED <<html, request, info, encoded, windowVars, clientVars, cacheVars, parserVars, entryVars, resolverVars>>

InitDecoder ==
  /\ html \in {Some(document) : document \in Documents}
  /\ result = None
  /\ request = None
  /\ info = None
  /\ encoded = None
  /\ WindowIdle
  /\ ClientIdle
  /\ CacheIdle
  /\ ParserIdle /\ EntryIdle /\ ResolverIdle

NextDecoder == ParseResponse

SpecDecoder == InitDecoder /\ [][NextDecoder]_vars

\* ------------------------------------------------------------ decoder claims
Decoded == IsSome(html) /\ IsSome(result)

TheDocument == Unwrap(html)

TheResult == Unwrap(result)

TheFlights == IF TheResult.ok THEN TheResult.flights ELSE <<>>

\* the number of entries of group g that the group rule keeps
Kept(groups, g) ==
  IF g = 1 THEN Len(groups[g])
  ELSE IF Len(groups[g]) >= 1 THEN Len(groups[g]) - 1 ELSE 0

RECURSIVE KeptBefore(_, _)
KeptBefore(groups, g) ==
  IF g <= 1 THEN 0 ELSE KeptBefore(groups, g - 1) + Kept(groups, g - 1)

KeptTotal(groups) == KeptBefore(groups, Len(groups) + 1)

\* the decoded document is one group holding the one item `it`
OneItem == Len(TheDocument.groups) = 1 /\ Len(TheDocument.groups[1]) = 1

TheItem == TheDocument.groups[1][1]

TheFlight == TheFlights[1]

\* C2: decode returns k0 + sum over later groups of max(ki - 1, 0) flights in
\* document order: every entry of the first group, marked best, and every
\* entry but the last of each later group, marked not best.
C2_GroupRule ==
  Decoded =>
    LET groups == TheDocument.groups IN
    /\ Len(TheFlights) = KeptTotal(groups)
    /\ \A g \in 1..Len(groups) : \A k \in 1..Kept(groups, g) :
         LET f == TheFlights[KeptBefore(groups, g) + k] IN
         /\ f.is_best = (g = 1)
         /\ groups[g][k].name # <<>> => f.name = groups[g][k].name[1]

\* the fixture of the spec: a best group of 3 and a second group of 4 give 6
C2_Witness ==
  /\ Decoded
  /\ Len(TheDocument.groups) = 2
  /\ Len(TheDocument.groups[1]) = 3
  /\ Len(TheDocument.groups[2]) = 4
  /\ Len(TheFlights) = 6
  /\ \A i \in 1..6 : TheFlights[i].is_best = (i <= 3)

C4_MissingFieldsPlaceholders ==
  Decoded =>
    LET groups == TheDocument.groups IN
    /\ Len(TheFlights) = KeptTotal(groups)
    /\ \A g \in 1..Len(groups) : \A k \in 1..Kept(groups, g) :
         LET it == groups[g][k]
             f  == TheFlights[KeptBefore(groups, g) + k]
         IN  /\ it.name = <<>> => f.name = Unknown
             /\ Len(it.times) = 0 => f.departure = Unknown
             /\ Len(it.times) < 2 => f.arrival = Unknown
             /\ it.duration = <<>> => f.duration = Unknown
             /\ it.stops = <<>> => f.stops = -1
             /\ it.price = <<>> => f.price = [amount |-> 0, currency |-> Dollar]
             /\ it.name # <<>> => f.name = it.name[1]
             /\ it.duration # <<>> => f.duration = it.duration[1]

\* an entry without name, times, duration, stops and price, decoded after a
\* fully marked-up one
C4_Witness ==
  /\ Decoded
  /\ Len(TheDocument.groups) >= 1
  /\ Len(TheDocument.groups[1]) = 2
  /\ TheDocument.groups[1][2] = BlankItem
  /\ Len(TheFlights) >= 2
  /\ TheFlights[2].name = Unknown
  /\ TheFlights[2].stops = -1

\* C5: every decoded Flight has stops >= -1, whatever the stops text.
C5_StopsAtLeastMinusOne ==
  Decoded => \A i \in 1..Len(TheFlights) : TheFlights[i].stops >= -1

SetMin(S) == CHOOSE a \in S : \A b \in S : a <= b

\* the first whitespace-separated token of a text (<<>> when it has none)
FirstTokenOf(t) ==
  LET solid == {i \in 1..Len(t) : ~IsWhitespace(t[i])} IN
  IF solid = {} THEN <<>>
  ELSE LET a    == SetMin(solid)
           gaps == {j \in a..Len(t) : IsWhitespace(t[j])}
       IN  SubSeq(t, a, IF gaps = {} THEN Len(t) ELSE SetMin(gaps) - 1)

I32MaxDigits == <<"2", "1", "4", "7", "4", "8", "3", "6", "4", "7">>

I32MinDigits == <<"2", "1", "4", "7", "4", "8", "3", "6", "4", "8">>

\* a <= b for digit strings of the same length
DigitsLeq(a, b) ==
  \/ a = b
  \/ \E i \in 1..Len(a) :
       /\ DigitVal(a[i]) < DigitVal(b[i])
       /\ \A j \in 1..(i - 1) : a[j] = b[j]

\* a digit string without its leading zeros
Significant(ds) ==
  LET nz == {i \in 1..Len(ds) : ds[i] # "0"} IN
  IF nz = {} THEN <<>> ELSE SubSeq(ds, SetMin(nz), Len(ds))

\* the magnitude written by the digits ds lies in the 32-bit signed range
FitsI32(ds, negative) ==
  LET sig == Significant(ds) IN
  \/ Len(sig) < Len(I32MaxDigits)
  \/ /\ Len(sig) = Len(I32MaxDigits)
     /\ DigitsLeq(sig, IF negative THEN I32MinDigits ELSE I32MaxDigits)

TokenDigits(tok) == IF tok # <<>> /\ tok[1] \in {"+", "-"} THEN Tail(tok) ELSE tok

\* the token is a decimal integer of the 32-bit signed range
IsIntegerToken(tok) ==
  LET ds == TokenDigits(tok) IN
  /\ ds # <<>>
  /\ \A i \in 1..Len(ds) : IsDigit(ds[i])
  /\ FitsI32(ds, tok[1] = "-")

RECURSIVE Pow10(_)
Pow10(n) == IF n = 0 THEN 1 ELSE 10 * Pow10(n - 1)

RECURSIVE SignedSum(_, _)
SignedSum(sig, sign) ==
  IF sig = <<>> THEN 0
  ELSE sign * DigitVal(Head(sig)) * Pow10(Len(sig) - 1) + SignedSum(Tail(sig), sign)

\* the value of an integer token
IntegerOf(tok) ==
  SignedSum(Significant(TokenDigits(tok)), IF tok[1] = "-" THEN -1 ELSE 1)

\* C6: the stops text "Nonstop" gives 0; otherwise the first whitespace
\* separated token, when it is an integer, is the stop count ("1 stop" -> 1,
\* "3 stops" -> 3); a token that is no integer, or a missing stops text,
\* gives -1.
C6_StopsMapping ==
  Decoded /\ OneItem =>
    IF TheItem.stops = <<>> THEN TheFlight.stops = -1
    ELSE LET t   == TheItem.stops[1]
             tok == FirstTokenOf(t)
         IN  /\ TheFlight.stops =
                  IF t = Nonstop THEN 0
                  ELSE IF IsIntegerToken(tok) THEN IntegerOf(tok)
                  ELSE -1
             /\ t = <<"1", " ", "s", "t", "o", "p">> => TheFlight.stops = 1
             /\ t = <<"3", " ", "s", "t", "o", "p", "s">> => TheFlight.stops = 3

C6_Witness ==
  /\ Decoded
  /\ OneItem
  /\ TheItem.stops = << <<"3", " ", "s", "t", "o", "p", "s">> >>
  /\ TheFlight.stops = 3

\* the non-digit run a text starts with, and the digit run right after it
LeadingSymbol(u) ==
  IF u = <<>> \/ IsDigit(u[1]) THEN <<>>
  ELSE LET ds == {j \in 1..Len(u) : IsDigit(u[j])} IN
       SubSeq(u, 1, IF ds = {} THEN Len(u) ELSE SetMin(ds) - 1)

DigitsAfter(u, lead) ==
  LET a   == Len(lead) + 1
      nds == {j \in a..Len(u) : ~IsDigit(u[j])}
  IN  SubSeq(u, a, IF nds = {} THEN Len(u) ELSE SetMin(nds) - 1)

\* C7: with the commas removed, the currency is the leading non-digit symbol
\* run and the amount the value of the digit run that follows it; the amount
\* is 0 when no integer can be parsed (no digits, or digits outside the
\* integer type); the currency is "$" whenever no currency symbol is
\* captured.  (A symbol run is read with its surrounding blanks trimmed; a
\* text that starts with a digit is left out.)
C7_PriceMapping ==
  Decoded /\ OneItem /\ TheItem.price # <<>> =>
    LET u      == RemoveCommas(TheItem.price[1])
        lead   == LeadingSymbol(u)
        digits == DigitsAfter(u, lead)
        price  == TheFlight.price
    IN  /\ lead # <<>> /\ digits # <<>> =>
             /\ price.currency = (IF Trim(lead) = <<>> THEN Dollar ELSE Trim(lead))
             /\ price.amount = (IF FitsI32(digits, FALSE)
                                THEN SignedSum(Significant(digits), 1) ELSE 0)
        /\ (\A i \in 1..Len(u) : ~IsDigit(u[i])) =>
             /\ price.currency = Dollar
             /\ price.amount = 0

\* the per-leg detail the claim expects for a URL of shape u
HasItinerary(u) == u.prefix # <<"?">>

RECURSIVE Survivors(_)
Survivors(legs) ==
  IF legs = <<>> THEN <<>>
  ELSE (IF Head(legs).n >= 4
        THEN <<[airline_code  |-> LegFields(Head(legs).sample)[3],
                flight_number |-> LegFields(Head(legs).sample)[4]]>>
        ELSE <<>>) \o Survivors(Tail(legs))

ExpectedLegs(u) ==
  IF HasItinerary(u) /\ Survivors(u.legs) # <<>> THEN Some(Survivors(u.legs)) ELSE None

\* C8: for an itinerary value of n comma-separated legs the per-leg detail
\* is, in order, one {airline_code = 3rd field, flight_number = 4th field}
\* pair per leg of at least 4 hyphen-separated fields; shorter legs are
\* dropped; with no surviving leg or no itinerary= parameter the detail is
\* None, never an empty list.
C8_ItineraryLegs ==
  Decoded /\ OneItem /\ TheItem = [SampleItem(1, 1) EXCEPT !.info = TheItem.info] =>
    /\ TheFlight.flight_legs # Some(<<>>)
    /\ (TheItem.info = <<>> \/ TheItem.info[1] = None) => TheFlight.flight_legs = None
    /\ \A u \in UrlShapes :
         TheItem.info = <<Some(RenderUrl(u))>> => TheFlight.flight_legs = ExpectedLegs(u)

\* a leg of two fields is dropped and the four-field leg after it is kept
C8_Witness ==
  /\ Decoded
  /\ OneItem
  /\ TheItem.info = <<Some(RenderUrl([prefix |-> KeyPrefix,
                                      legs   |-> <<[sample |-> 1, n |-> 2],
                                                   [sample |-> 2, n |-> 4]>>,
                                      suffix |-> <<>>]))>>
  /\ TheFlight.flight_legs =
       Some(<<[airline_code |-> <<"F", "9">>, flight_number |-> <<>>]>>)

\* the texts of the nodes that carry a code (something other than blanks),
\* blanks around the code removed
IsBlank(text) == \A i \in 1..Len(text) : IsWhitespace(text[i])

CodesFound(texts) ==
  LET found == SelectSeq(texts, LAMBDA t : ~IsBlank(t)) IN
  [i \in 1..Len(found) |-> Trim(found[i])]

\* C18: when two short-code nodes are found the first is the origin and the
\* second the destination; when exactly one is found it is the origin and the
\* destination is unset; when none is found both are unset; the entry is
\* kept in every case.
C18_AirportCodes ==
  (Decoded /\ OneItem) =>
    LET found == CodesFound(TheItem.codes) IN
    /\ TheResult.ok /\ Len(TheFlights) = 1
    /\ Len(found) = 2 =>
         /\ TheFlight.origin_airport = Some(found[1])
         /\ TheFlight.destination_airport = Some(found[2])
    /\ Len(found) = 1 =>
         /\ TheFlight.origin_airport = Some(found[1])
         /\ TheFlight.destination_airport = None
    /\ Len(found) = 0 =>
         /\ TheFlight.origin_airport = None
         /\ TheFlight.destination_airport = None

\* an entry with a single code node " J ": origin J, no destination
C18_Witness ==
  /\ Decoded /\ OneItem
  /\ TheItem.codes = << <<" ", "J", " ">> >>
  /\ TheFlight.origin_airport = Some(<<"J">>)
  /\ TheFlight.destination_airport = None

LayoverUpper == <<"L", "A", "Y", "O", "V", "E", "R">>

\* the label holds the letters of "layover", each in either case
IsLayoverLabel(label) ==
  /\ IsSome(label)
  /\ \E i \in 1..(Len(Unwrap(label)) - Len(LayoverWord) + 1) :
       \A k \in 1..Len(LayoverWord) :
         Unwrap(label)[i + k - 1] \in {LayoverWord[k], LayoverUpper[k]}

\* C19: the first layover-candidate element (document order) whose label
\* contains "layover" in any case decides: the description is its full label
\* and the layover list is its nested short codes in order, absent when it has
\* none; later matching elements are ignored; with no matching candidate both
\* are absent and the entry is decoded all the same.
C19_FirstLayoverLabel ==
  (Decoded /\ OneItem) =>
    LET candidates == TheItem.layover
        matching   == {i \in 1..Len(candidates) : IsLayoverLabel(candidates[i].label)}
    IN  /\ TheResult.ok /\ Len(TheFlights) = 1
        /\ matching = {} =>
             (TheFlight.layovers = None /\ TheFlight.layover_description = None)
        /\ matching # {} =>
             LET first == candidates[SetMin(matching)]
                 codes == CodesFound(first.codes)
             IN  /\ TheFlight.layover_description = first.label
                 /\ TheFlight.layovers = IF codes = <<>> THEN None ELSE Some(codes)

\* a label about stops, then "a LAYOVER" without codes, then "layOver" with
\* two codes: the second candidate decides, the third is ignored
C19_Witness ==
  /\ Decoded /\ OneItem
  /\ Len(TheItem.layover) = 3
  /\ ~IsLayoverLabel(TheItem.layover[1].label)
  /\ TheItem.layover[1].label # None
  /\ TheItem.layover[2].codes = <<>>
  /\ IsLayoverLabel(TheItem.layover[2].label)
  /\ IsLayoverLabel(TheItem.layover[3].label)
  /\ TheItem.layover[3].codes # <<>>
  /\ TheFlight.layover_description = Some(<<"a", " ", "L", "A", "Y", "O", "V", "E", "R">>)
  /\ TheFlight.layovers = None

\* no candidate has a layover label: nothing is reported
C19_WitnessNone ==
  /\ Decoded /\ OneItem
  /\ Len(TheItem.layover) = 2
  /\ \A i \in 1..2 : ~IsLayoverLabel(TheItem.layover[i].label)
  /\ TheFlight.layovers = None
  /\ TheFlight.layover_description = None

\* ---------------------------------------------------------------- TimeWindow
\* lib.rs 41-42
TimeParseError == "TimeParseError"

\* Result<T, FlightError>; the message of an error is kept as the pair of its
\* fixed text and the value formatted into it
Ok(value) == [ok |-> TRUE, value |-> value]

Err(kind, text, got) == [ok |-> FALSE, err |-> kind, message |-> <<text, got>>]

\* faulty variant: a window that ends before it starts is refused
TimeWindow_new_Ordered(earliest_hour, latest_hour) ==
  IF earliest_hour < 0 \/ earliest_hour > 23
  THEN Err(TimeParseError, "earliest_hour must be 0-23, got", earliest_hour)
  ELSE IF latest_hour < 0 \/ latest_hour > 23 \/ latest_hour < earliest_hour
  THEN Err(TimeParseError, "latest_hour must be 0-23, got", latest_hour)
  ELSE Ok(TimeWindow(earliest_hour, latest_hour))

\* lib.rs 54-70
TimeWindow_new(earliest_hour, latest_hour) ==
  IF earliest_hour < 0 \/ earliest_hour > 23
  THEN Err(TimeParseError, "earliest_hour must be 0-23, got", earliest_hour)
  ELSE IF latest_hour < 0 \/ latest_hour > 23
  THEN Err(TimeParseError, "latest_hour must be 0-23, got", latest_hour)
  ELSE Ok(TimeWindow(earliest_hour, latest_hour))

\* faulty variant: minutes of 30 and more round the hour up
parse_hour_RoundsUp(time_str) ==
  LET parts  == Split(time_str, ":")
      hour   == ParseI32(parts[1])
      minute == IF Len(parts) >= 2 THEN ParseI32(parts[2]) ELSE None
  IN  IF ~IsSome(hour) THEN Err(TimeParseError, "Invalid hour format:", time_str)
      ELSE IF IsSome(minute) /\ Unwrap(minute) >= 30 THEN Ok(Unwrap(hour) + 1)
      ELSE Ok(Unwrap(hour))

\* lib.rs 87-94: the text before the first ':' parsed as an i32
parse_hour(time_str) ==
  LET hour_str == Split(time_str, ":")[1]
      hour     == ParseI32(hour_str)
  IN  IF IsSome(hour) THEN Ok(Unwrap(hour))
      ELSE Err(TimeParseError, "Invalid hour format:", time_str)

\* lib.rs 73-85
from_range_str(range) ==
  LET parts == Split(range, "-") IN
  IF Len(parts) # 2
  THEN Err(TimeParseError, "Time range must be in format HH:MM-HH:MM, got", range)
  ELSE LET earliest_hour == parse_hour(parts[1]) IN
       IF ~earliest_hour.ok THEN earliest_hour
       ELSE LET latest_hour == parse_hour(parts[2]) IN
            IF ~latest_hour.ok THEN latest_hour
            ELSE TimeWindow_new(earliest_hour.value, latest_hour.value)

\* ------------------------------------------------- inputs given to TimeWindow
\* hours on both sides of the two limits of new
HourValues == -2..25

\* the hour part of one half of a range text: plain, zero padded, the two
\* limits and the first value past them, signed, empty, not a number, too
\* long for an i32
HourTokens ==
  { <<"9">>, <<"0", "9">>, <<"0", "0">>, <<"2", "3">>, <<"2", "4">>, <<"1", "7">>,
    <<"+", "9">>, <<>>, <<"a">>,
    <<"9", "9", "9", "9", "9", "9", "9", "9", "9", "9", "9">> }

\* what follows the hour part
MinuteTails ==
  { <<":", "0", "0">>, <<":", "5", "9">>, <<>>, <<":", "a">>,
    <<":", "0", "0", ":", "0", "0">> }

Separators == { <<"-">>, <<>>, <<"-", "-">> }

RangeAlphabet == {"1", "9", ":", "-", "a"}

RangeTexts ==
  { h1 \o m1 \o sep \o h2 \o m2 :
      h1 \in HourTokens, m1 \in MinuteTails, sep \in Separators,
      h2 \in HourTokens, m2 \in MinuteTails }
  \cup Strings(RangeAlphabet, MaxRangeLen)

\* ------------------------------------------------------- TimeWindow actions
New ==
  /\ IsSome(hours)
  /\ timeWindow = None
  /\ timeWindow' = Some(TimeWindow_new(Unwrap(hours)[1], Unwrap(hours)[2]))
  /\ UNCHANGED <<hours, rangeText, codecVars, clientVars, cacheVars, parserVars, entryVars, resolverVars>>

FromRangeStr ==
  /\ IsSome(rangeText)
  /\ timeWindow = None
  /\ timeWindow' = Some(from_range_str(Unwrap(rangeText)))
  /\ UNCHANGED <<hours, rangeText, codecVars, clientVars, cacheVars, parserVars, entryVars, resolverVars>>

InitWindow ==
  /\ CodecIdle
  /\ ClientIdle
  /\ CacheIdle
  /\ ParserIdle /\ EntryIdle /\ ResolverIdle
  /\ timeWindow = None
  /\ \/ hours \in {Some(<<e, l>>) : e \in HourValues, l \in HourValues} /\ rangeText = None
     \/ hours = None /\ rangeText \in {Some(text) : text \in RangeTexts}

NextWindow == New \/ FromRangeStr

SpecWindow == InitWindow /\ [][NextWindow]_vars

\* -------------------------------------------------------- TimeWindow claims
Made == IsSome(hours) /\ IsSome(timeWindow)

Parsed == IsSome(rangeText) /\ IsSome(timeWindow)

\* C14: new(e, l) succeeds if and only if 0 <= e <= 23 and 0 <= l <= 23, and
\* then returns the window (e, l) unchanged; otherwise it fails with a
\* time-format error; no order between e and l is required.
C14_NewValidatesHours ==
  Made =>
    LET e == Unwrap(hours)[1]
        l == Unwrap(hours)[2]
        r == Unwrap(timeWindow)
    IN  /\ r.ok <=> (0 <= e /\ e <= 23 /\ 0 <= l /\ l <= 23)
        /\ r.ok => (r.value.earliest_hour = e /\ r.value.latest_hour = l)
        /\ ~r.ok => r.err = TimeParseError

\* a window that ends before it starts: new(17, 9) succeeds
C14_Witness ==
  /\ Made
  /\ Unwrap(hours) = <<17, 9>>
  /\ Unwrap(timeWindow).ok
  /\ Unwrap(timeWindow).value = [earliest_hour |-> 17, latest_hour |-> 9]

\* an HH:MM token: one or two digits, a colon, two digits
IsClockToken(t) ==
  /\ Len(t) \in {4, 5}
  /\ t[Len(t) - 2] = ":"
  /\ \A i \in 1..Len(t) : i # Len(t) - 2 => IsDigit(t[i])

\* two HH:MM tokens separated by exactly one hyphen
IsClockRange(text) ==
  \E j \in 1..Len(text) :
    /\ text[j] = "-"
    /\ IsClockToken(SubSeq(text, 1, j - 1))
    /\ IsClockToken(SubSeq(text, j + 1, Len(text)))

NineToFive == <<"0", "9", ":", "0", "0", "-", "1", "7", ":", "0", "0">>

\* C15: from_range_str fails with a time-format error for every text that is
\* not two HH:MM tokens separated by exactly one hyphen, and "09:00-17:00"
\* gives earliest 9, latest 17.
C15_RejectsMalformedRange ==
  Parsed =>
    LET text == Unwrap(rangeText)
        r    == Unwrap(timeWindow)
    IN  /\ ~IsClockRange(text) => (~r.ok /\ r.err = TimeParseError)
        /\ text = NineToFive => (r.ok /\ r.value = [earliest_hour |-> 9, latest_hour |-> 17])

\* the hour h of a text "h:mm", h an unsigned decimal that fits an i32
IsHourMinute(t) ==
  /\ Len(t) >= 4
  /\ t[Len(t) - 2] = ":"
  /\ IsDigit(t[Len(t) - 1]) /\ IsDigit(t[Len(t)])
  /\ IsDigit(t[1])
  /\ IsIntegerToken(SubSeq(t, 1, Len(t) - 3))

HourOf(t) == IntegerOf(SubSeq(t, 1, Len(t) - 3))

\* C16: for every input "h1:m1-h2:m2", from_range_str returns exactly what
\* new(h1, h2) returns: the minutes never change the hours, and an hour
\* outside 0..23 is refused by new.
C16_MinutesDiscarded ==
  Parsed =>
    LET text == Unwrap(rangeText) IN
    \A j \in 1..Len(text) :
      LET first  == SubSeq(text, 1, j - 1)
          second == SubSeq(text, j + 1, Len(text))
      IN  (text[j] = "-" /\ IsHourMinute(first) /\ IsHourMinute(second)) =>
            Unwrap(timeWindow) = TimeWindow_new(HourOf(first), HourOf(second))

\* "09:59-17:00" gives the window (9, 17): 59 minutes do not make it 10
C16_Witness ==
  /\ Parsed
  /\ Unwrap(rangeText) = <<"0", "9", ":", "5", "9", "-", "1", "7", ":", "0", "0">>
  /\ Unwrap(timeWindow) = Ok([earliest_hour |-> 9, latest_hour |-> 17])

\* "24:00-09:59" is refused, with the message new gives for its first hour
C16_WitnessRefused ==
  /\ Parsed
  /\ Unwrap(rangeText) = <<"2", "4", ":", "0", "0", "-", "0", "9", ":", "5", "9">>
  /\ Unwrap(timeWindow) = Err(TimeParseError, "earliest_hour must be 0-23, got", 24)

\* ------------------------------------------------ FlightClient::get_flights
\* lib.rs 23-24 and 29-30
HttpError == "HttpError"

ProtobufError == "ProtobufError"

\* faulty variant: a failed transport step is tried again
AfterTransport_Retry(reply, next) ==
  IF reply.ok THEN [pc |-> next, outcome |-> None]
  ELSE [pc |-> "encoded", outcome |-> None]

\* client.rs 38-39, the `?` after send().await and after text().await: an Err
\* of the transport is converted to FlightError::HttpError and returned at
\* once; an Ok lets the body go on to the next statement
AfterTransport(reply, next) ==
  IF reply.ok THEN [pc |-> next, outcome |-> None]
  ELSE [pc |-> "returned", outcome |-> Some([ok |-> FALSE, err |-> HttpError])]

\* the requests a call is made with: one leg of each kind
ClientRequests ==
  {[flights |-> <<leg>>, trip_type |-> "OneWay", passengers |-> DefaultPassengers,
    seat_class |-> "Economy"] : leg \in LegSamples}

\* the bodies the server answers with: no flight at all, or one flight item
\* with some of its fields missing
ClientDocuments == {EmptyDoc} \cup {OneItemDoc(item) : item \in FieldItems}

\* what send() and text() can come back with
SendReplies == {[ok |-> TRUE], [ok |-> FALSE]}

TextReplies == {[ok |-> FALSE]} \cup {[ok |-> TRUE, body |-> d] : d \in ClientDocuments}

\* client.rs 27: build_flight_info, which has no failing path
Build ==
  /\ pc = "called"
  /\ LET r == Unwrap(request) IN
     info' = Some(build_flight_info(r.flights, r.trip_type, r.passengers, r.seat_class))
  /\ pc' = "built"
  /\ UNCHANGED <<request, encoded, html, result, steps, outcome, windowVars, cacheVars, parserVars, entryVars, resolverVars>>

\* client.rs 30: encode_to_base64(&info)?, the Ok case
Encode ==
  /\ pc = "built"
  /\ encoded' = Some(encode_to_base64(Unwrap(info)))
  /\ steps' = Append(steps, "encode")
  /\ pc' = "encoded"
  /\ UNCHANGED <<request, info, html, result, outcome, windowVars, cacheVars, parserVars, entryVars, resolverVars>>

\* client.rs 30: encode_to_base64(&info)?, the Err case (prost's EncodeError,
\* converted by the From impl of lib.rs 29-30) leaves the function
EncodeFails ==
  /\ pc = "built"
  /\ steps' = Append(steps, "encode")
  /\ outcome' = Some([ok |-> FALSE, err |-> ProtobufError])
  /\ pc' = "returned"
  /\ UNCHANGED <<request, info, encoded, html, result, windowVars, cacheVars, parserVars, entryVars, resolverVars>>

\* client.rs 35-38: the URL is formatted and the GET is issued
Send ==
  /\ pc = "encoded"
  /\ steps' = Append(steps, "GET")
  /\ pc' = "sent"
  /\ UNCHANGED <<codecVars, outcome, windowVars, cacheVars, parserVars, entryVars, resolverVars>>

\* client.rs 38: send().await?
SendDone ==
  /\ pc = "sent"
  /\ \E reply \in SendReplies :
       LET after == AfterTransport(reply, "responded") IN
       pc' = after.pc /\ outcome' = after.outcome
  /\ UNCHANGED <<codecVars, steps, windowVars, cacheVars, parserVars, entryVars, resolverVars>>

\* client.rs 39: response.text().await?
Text ==
  /\ pc = "responded"
  /\ \E reply \in TextReplies :
       LET after == AfterTransport(reply, "read") IN
       /\ pc' = after.pc
       /\ outcome' = after.outcome
       /\ html' = IF reply.ok THEN Some(reply.body) ELSE html
  /\ UNCHANGED <<request, info, encoded, result, steps, windowVars, cacheVars, parserVars, entryVars, resolverVars>>

\* client.rs 42-43: the parser is built (its selectors are constants that
\* parse) and its result is the result of the call
Parse ==
  /\ pc = "read"
  /\ steps' = Append(steps, "decode")
  /\ result' = Some(parse_response(Unwrap(html)))
  /\ outcome' = Some(parse_response(Unwrap(html)))
  /\ pc' = "returned"
  /\ UNCHANGED <<request, info, encoded, html, windowVars, cacheVars, parserVars, entryVars, resolverVars>>

InitClient ==
  /\ request \in {Some(r) : r \in ClientRequests}
  /\ info = None /\ encoded = None /\ html = None /\ result = None
  /\ pc = "called" /\ steps = <<>> /\ outcome = None
  /\ WindowIdle
  /\ CacheIdle
  /\ ParserIdle /\ EntryIdle /\ ResolverIdle

NextClient == Build \/ Encode \/ EncodeFails \/ Send \/ SendDone \/ Text \/ Parse

SpecClient == InitClient /\ [][NextClient]_vars

\* ------------------------------------------------------------ client claims
IsPrefix(s, t) == Len(s) <= Len(t) /\ \A i \in 1..Len(s) : s[i] = t[i]

Failed(kind) == IsSome(outcome) /\ ~Unwrap(outcome).ok /\ Unwrap(outcome).err = kind

\* C17: a search call takes its steps in the order encode, one GET, decode;
\* at most one GET is issued; when encoding fails no GET is issued; when the
\* GET or the reading of its body fails the call returns that transport error
\* at once: no second GET, no decoder run, nothing more happens.
C17_OneRoundTrip ==
  /\ IsPrefix(steps, <<"encode", "GET", "decode">>)
  /\ Failed(ProtobufError) => steps = <<"encode">>
  /\ Failed(HttpError) => (steps = <<"encode", "GET">> /\ result = None)
  /\ IsSome(outcome) => (pc = "returned" /\ ~ENABLED NextClient)
  /\ pc = "returned" => IsSome(outcome)

\* the body of the answer could not be read: the call has returned the
\* transport error after one GET
C17_Witness ==
  /\ pc = "returned"
  /\ Failed(HttpError)
  /\ steps = <<"encode", "GET">>
  /\ IsSome(encoded)
  /\ result = None

\* ------------------------------------------------------- the city cache
\* the cities of the embedded file and of the lists given to the population
\* helper, and the identifier Wikidata or the file has for a city
Cities == <<"paris", "tokyo">>

FreebaseId(city) == IF city = "paris" THEN "/m/05qtj" ELSE "/m/07dfk"

EmptyMap == [c \in {} |-> ""]

Insert(map, key, value) ==
  [c \in DOMAIN map \cup {key} |-> IF c = key THEN value ELSE map[c]]

\* wikidata.rs 62-68: the embedded JSON parsed into a map, or the empty map
\* when it does not parse
load_city_cache(file) ==
  IF file = "valid" THEN [c \in {Cities[i] : i \in 1..Len(Cities)} |-> FreebaseId(c)]
  ELSE EmptyMap

\* faulty variant: a caller that finds the initializer running runs it too
OnceLockEnter_NoWait(state) ==
  IF state = "complete" THEN "read" ELSE "init"

\* OnceLock::get_or_init as the standard library specifies it: a complete
\* cell is read; the first caller of an incomplete cell runs the initializer;
\* a caller that finds it running blocks until the cell is complete
OnceLockEnter(state) ==
  IF state = "complete" THEN "read"
  ELSE IF state = "incomplete" THEN "init"
  ELSE "wait"

At(t, where) == tpc[t].at = where

Goto(t, where) == tpc' = [tpc EXCEPT ![t] = [at |-> where]]

\* a thread calls get_cache_stats or get_from_cache (wikidata.rs 128, 222)
CallReader(t) ==
  /\ At(t, "idle")
  /\ Goto(t, "enter")
  /\ UNCHANGED <<cacheFile, onceState, cityCache, inits, seen, populated>>
  /\ UNCHANGED <<codecVars, windowVars, clientVars, parserVars, entryVars, resolverVars>>

\* wikidata.rs 71-73: get_city_cache enters CITY_CACHE.get_or_init
Enter(t) ==
  /\ At(t, "enter")
  /\ LET todo == OnceLockEnter(onceState) IN
     /\ todo = "read" =>
          /\ seen' = [seen EXCEPT ![t] = cityCache]
          /\ Goto(t, "reading")
          /\ UNCHANGED onceState
     /\ todo = "init" =>
          /\ onceState' = "running"
          /\ Goto(t, "loading")
          /\ UNCHANGED seen
     /\ todo = "wait" =>
          /\ Goto(t, "waiting")
          /\ UNCHANGED <<onceState, seen>>
  /\ UNCHANGED <<cacheFile, cityCache, inits, populated>>
  /\ UNCHANGED <<codecVars, windowVars, clientVars, parserVars, entryVars, resolverVars>>

\* the initializer load_city_cache runs and its value is stored in the cell
Load(t) ==
  /\ At(t, "loading")
  /\ inits' = inits + 1
  /\ cityCache' = Some(load_city_cache(cacheFile))
  /\ onceState' = "complete"
  /\ seen' = [seen EXCEPT ![t] = Some(load_city_cache(cacheFile))]
  /\ Goto(t, "reading")
  /\ UNCHANGED <<cacheFile, populated>>
  /\ UNCHANGED <<codecVars, windowVars, clientVars, parserVars, entryVars, resolverVars>>

\* a blocked caller goes on once the cell is complete
Wake(t) ==
  /\ At(t, "waiting")
  /\ onceState = "complete"
  /\ seen' = [seen EXCEPT ![t] = cityCache]
  /\ Goto(t, "reading")
  /\ UNCHANGED <<cacheFile, onceState, cityCache, inits, populated>>
  /\ UNCHANGED <<codecVars, windowVars, clientVars, parserVars, entryVars, resolverVars>>

\* wikidata.rs 129-131 and 223-245: the operation reads the map through the
\* shared reference (len, keys, get, iter) and returns
ReturnReader(t) ==
  /\ At(t, "reading")
  /\ seen' = [seen EXCEPT ![t] = None]
  /\ Goto(t, "idle")
  /\ UNCHANGED <<cacheFile, onceState, cityCache, inits, populated>>
  /\ UNCHANGED <<codecVars, windowVars, clientVars, parserVars, entryVars, resolverVars>>

\* wikidata.rs 92-93: populate_cache_from_cities starts with a new local map
CallPopulate(t) ==
  /\ At(t, "idle")
  /\ populated' = [populated EXCEPT ![t] = Some(EmptyMap)]
  /\ tpc' = [tpc EXCEPT ![t] = [at |-> "populating", i |-> 1]]
  /\ UNCHANGED <<cacheFile, onceState, cityCache, inits, seen>>
  /\ UNCHANGED <<codecVars, windowVars, clientVars, parserVars, entryVars, resolverVars>>

\* wikidata.rs 99-115: one round of the loop: the city is asked of Wikidata
\* and inserted into the local map when an identifier comes back
PopulateCity(t) ==
  /\ At(t, "populating")
  /\ tpc[t].i <= Len(Cities)
  /\ \E found \in BOOLEAN :
       populated' = [populated EXCEPT ![t] =
                       IF found
                       THEN Some(Insert(Unwrap(@), Cities[tpc[t].i], FreebaseId(Cities[tpc[t].i])))
                       ELSE @]
  /\ tpc' = [tpc EXCEPT ![t].i = @ + 1]
  /\ UNCHANGED <<cacheFile, onceState, cityCache, inits, seen>>
  /\ UNCHANGED <<codecVars, windowVars, clientVars, parserVars, entryVars, resolverVars>>

\* wikidata.rs 117-124: the local map is returned to the caller
ReturnPopulate(t) ==
  /\ At(t, "populating")
  /\ tpc[t].i > Len(Cities)
  /\ populated' = [populated EXCEPT ![t] = None]
  /\ Goto(t, "idle")
  /\ UNCHANGED <<cacheFile, onceState, cityCache, inits, seen>>
  /\ UNCHANGED <<codecVars, windowVars, clientVars, parserVars, entryVars, resolverVars>>

InitCache ==
  /\ CodecIdle /\ WindowIdle /\ ClientIdle
  /\ ParserIdle /\ EntryIdle /\ ResolverIdle
  /\ cacheFile \in {"valid", "invalid"}
  /\ onceState = "incomplete"
  /\ cityCache = None
  /\ inits = 0
  /\ tpc = [t \in Threads |-> [at |-> "idle"]]
  /\ seen = [t \in Threads |-> None]
  /\ populated = [t \in Threads |-> None]

NextCache ==
  \E t \in Threads :
    \/ CallReader(t) \/ Enter(t) \/ Load(t) \/ Wake(t) \/ ReturnReader(t)
    \/ CallPopulate(t) \/ PopulateCity(t) \/ ReturnPopulate(t)

SpecCache == InitCache /\ [][NextCache]_vars

\* ------------------------------------------------------------- cache claims
\* C20: under every interleaving of concurrent city lookups, several threads
\* making the first access at once included, the cache is initialised at most
\* once, to the one value its loader builds; every reader observes that same
\* complete map; and no operation (lookup, statistics, population helper)
\* changes it once it is initialised.
C20_CacheInitialisedOnce ==
  /\ [](/\ inits <= 1
        /\ IsSome(cityCache) <=> onceState = "complete"
        /\ IsSome(cityCache) => Unwrap(cityCache) = load_city_cache(cacheFile)
        /\ \A t \in Threads : IsSome(seen[t]) => seen[t] = cityCache)
  /\ [][IsSome(cityCache) => cityCache' = cityCache]_vars

\* two threads made the first access at the same time: one ran the loader
\* and reads the map, the other is still held at the cell; a third thread has
\* put a city into the local map of the population helper
C20_Witness ==
  /\ inits = 1
  /\ cacheFile = "valid"
  /\ \E t1, t2, t3 \in Threads :
       /\ At(t1, "reading") /\ seen[t1] = cityCache /\ IsSome(cityCache)
       /\ At(t2, "waiting")
       /\ At(t3, "populating") /\ DOMAIN Unwrap(populated[t3]) # {}

\* ------------------------------------------------------ the shared decoder
\* client.rs 66-95: the thirteen selectors FlightResponseParser::new compiles
FlightResponseParser_new ==
  [flights_selector           |-> "div[jsname=IWWDBc], div[jsname=YdtKid]",
   flight_items_selector      |-> "ul.Rk10dc li",
   flight_name_selector       |-> "div.sSHqwe.tPgKwe.ogfYpf span",
   departure_arrival_selector |-> "span.mv1WYe div",
   duration_selector          |-> "li div.Ak5kof div",
   stops_selector             |-> ".BbR8Ec .ogfYpf",
   price_selector             |-> ".YMlIz.FpEdX",
   current_price_selector     |-> "span.gOatQ",
   flight_info_selector       |-> ".NZRfve",
   airport_codes_selector     |-> "span.PTuQse span[jscontroller=cNtv4b]",
   flight_summary_selector    |-> ".JMc5Xc",
   layover_selector           |-> "div.sSHqwe.tPgKwe.ogfYpf",
   layover_airport_selector   |-> "span[jscontroller=cNtv4b]"]

\* a thread that is in no call
NoCall == [at |-> "idle", html |-> None, flights |-> None, result |-> None]

\* the documents the threads decode: one without any flight, one with one
\* flight, one with two groups, one without a price indicator
ParserDocuments ==
  { EmptyDoc,
    OneItemDoc(SampleItem(1, 1)),
    Document(<< <<SampleItem(1, 1), SampleItem(1, 2)>>,
                <<SampleItem(2, 1), SampleItem(2, 2)>> >>),
    [groups |-> << <<SampleItem(1, 2)>> >>, current_price |-> <<>>] }

\* faulty variant: the flight list is kept in a place every call in progress
\* shares
BindFlights_Shared(calls, t, flights) ==
  [u \in DOMAIN calls |->
     IF u = t THEN [calls[u] EXCEPT !.flights = Some(flights), !.at = "extracted"]
     ELSE IF calls[u].at = "extracted" THEN [calls[u] EXCEPT !.flights = Some(flights)]
     ELSE calls[u]]

\* client.rs 99: the flight list is bound to a local of the call
BindFlights(calls, t, flights) ==
  [calls EXCEPT ![t].flights = Some(flights), ![t].at = "extracted"]

\* client.rs 97-98: a thread calls parse_response(&self, html) on the shared
\* parser; the document is parsed into a value local to the call
CallParseResponse(t) ==
  /\ IsSome(parser)
  /\ decoding[t].at = "idle"
  /\ \E document \in ParserDocuments :
       decoding' = [decoding EXCEPT ![t] = [NoCall EXCEPT !.at = "called",
                                                          !.html = Some(document)]]
  /\ UNCHANGED parser
  /\ UNCHANGED <<codecVars, windowVars, clientVars, cacheVars, entryVars, resolverVars>>

\* client.rs 99: self.extract_flights(&document)? reads the selectors; an
\* error is returned at once
ExtractFlights(t) ==
  /\ decoding[t].at = "called"
  /\ LET flights == extract_flights(Unwrap(decoding[t].html)) IN
     IF flights.ok
     THEN decoding' = BindFlights(decoding, t, flights.flights)
     ELSE decoding' = [decoding EXCEPT ![t].at = "done", ![t].result = Some(flights)]
  /\ UNCHANGED parser
  /\ UNCHANGED <<codecVars, windowVars, clientVars, cacheVars, entryVars, resolverVars>>

\* client.rs 100-105: self.extract_current_price(&document) reads the
\* selectors and the FlightResult is put together
ExtractCurrentPrice(t) ==
  /\ decoding[t].at = "extracted"
  /\ decoding' =
       [decoding EXCEPT
          ![t].at = "done",
          ![t].result =
             Some([ok            |-> TRUE,
                   current_price |-> extract_current_price(Unwrap(decoding[t].html)),
                   flights       |-> Unwrap(decoding[t].flights)])]
  /\ UNCHANGED parser
  /\ UNCHANGED <<codecVars, windowVars, clientVars, cacheVars, entryVars, resolverVars>>

\* the caller takes the Result; the thread may call again
ReturnParseResponse(t) ==
  /\ decoding[t].at = "done"
  /\ decoding' = [decoding EXCEPT ![t] = NoCall]
  /\ UNCHANGED parser
  /\ UNCHANGED <<codecVars, windowVars, clientVars, cacheVars, entryVars, resolverVars>>

InitParser ==
  /\ CodecIdle /\ WindowIdle /\ ClientIdle /\ CacheIdle
  /\ EntryIdle /\ ResolverIdle
  /\ parser = Some(FlightResponseParser_new)
  /\ decoding = [t \in Threads |-> NoCall]

NextParser ==
  \E t \in Threads :
    \/ CallParseResponse(t) \/ ExtractFlights(t)
    \/ ExtractCurrentPrice(t) \/ ReturnParseResponse(t)

SpecParser == InitParser /\ [][NextParser]_vars

\* ---------------------------------------------------- shared decoder claims
\* C21: a decoder instance is never modified by decoding: any number of
\* parse_response calls on one shared FlightResponseParser, one after the
\* other or interleaved, leave its selectors as new built them, and the result
\* of each call is what a decoder of its own gives for the HTML of that call,
\* whatever the other calls are decoding.
C21_SharedParserUnchanged ==
  /\ [](/\ parser = Some(FlightResponseParser_new)
        /\ \A t \in Threads :
             decoding[t].at = "done" =>
               Unwrap(decoding[t].result) = parse_response(Unwrap(decoding[t].html)))
  /\ [][parser' = parser]_vars

\* three calls are interleaved on the one parser: two have returned the same
\* flights for the same HTML while a third, past extract_flights, is decoding
\* another document
C21_Witness ==
  \E t1, t2, t3 \in Threads :
    /\ t1 # t2
    /\ decoding[t1].at = "done" /\ decoding[t2].at = "done"
    /\ decoding[t1].html = decoding[t2].html
    /\ decoding[t1].result = decoding[t2].result
    /\ Unwrap(decoding[t1].result).ok
    /\ decoding[t3].at = "extracted"
    /\ decoding[t3].html # decoding[t1].html

\* --------------------------------------------------------- the entry points
RoundTripTexts ==
  {<<"r", "o", "u", "n", "d", "-", "t", "r", "i", "p">>,
   <<"r", "o", "u", "n", "d", "t", "r", "i", "p">>}

OneWayText == <<"o", "n", "e", "-", "w", "a", "y">>

OneWayTexts == {OneWayText, <<"o", "n", "e", "w", "a", "y">>}

MultiCityTexts ==
  {<<"m", "u", "l", "t", "i", "-", "c", "i", "t", "y">>,
   <<"m", "u", "l", "t", "i", "c", "i", "t", "y">>}

\* lib.rs 176-187: TripType::from_str
TripType_from_str(s) ==
  LET lower == ToLowercase(s) IN
  IF lower \in RoundTripTexts THEN Ok("RoundTrip")
  ELSE IF lower \in OneWayTexts THEN Ok("OneWay")
  ELSE IF lower \in MultiCityTexts THEN Ok("MultiCity")
  ELSE Err(ParseError, "Invalid trip type:", s)

EconomyText == <<"e", "c", "o", "n", "o", "m", "y">>

PremiumEconomyTexts ==
  {<<"p", "r", "e", "m", "i", "u", "m", "-", "e", "c", "o", "n", "o", "m", "y">>,
   <<"p", "r", "e", "m", "i", "u", "m", "_", "e", "c", "o", "n", "o", "m", "y">>}

BusinessText == <<"b", "u", "s", "i", "n", "e", "s", "s">>

FirstText == <<"f", "i", "r", "s", "t">>

\* lib.rs 198-210: SeatClass::from_str
SeatClass_from_str(s) ==
  LET lower == ToLowercase(s) IN
  IF lower = EconomyText THEN Ok("Economy")
  ELSE IF lower \in PremiumEconomyTexts THEN Ok("PremiumEconomy")
  ELSE IF lower = BusinessText THEN Ok("Business")
  ELSE IF lower = FirstText THEN Ok("First")
  ELSE Err(ParseError, "Invalid seat class:", s)

\* Option::unwrap_or
Unwrap_or(o, default) == IF IsSome(o) THEN Unwrap(o) ELSE default

\* a query leg (lib.rs 108-117) and a city leg (lib.rs 250-258)
Leg(date, from_airport, to_airport, max_stops, airlines, departure_time, arrival_time) ==
  [date |-> date, from_airport |-> from_airport, to_airport |-> to_airport,
   max_stops |-> max_stops, airlines |-> airlines,
   departure_time |-> departure_time, arrival_time |-> arrival_time]

CityLeg(date, from_city, to_city, max_stops, airlines, departure_time, arrival_time) ==
  [date |-> date, from_city |-> from_city, to_city |-> to_city,
   max_stops |-> max_stops, airlines |-> airlines,
   departure_time |-> departure_time, arrival_time |-> arrival_time]

\* mcp_server.rs 366-371 and 448-453
PassengersOf(params) ==
  [adults          |-> Unwrap_or(params.adults, 1),
   children        |-> Unwrap_or(params.children, 0),
   infants_in_seat |-> Unwrap_or(params.infants_in_seat, 0),
   infants_on_lap  |-> Unwrap_or(params.infants_on_lap, 0)]

\* mcp_server.rs 387-399, main.rs 260-270: an optional range text becomes an
\* optional window, or the error of from_range_str
Transpose(parsed) == IF parsed.ok THEN Ok(Some(parsed.value)) ELSE parsed

WindowOf(range) ==
  IF range = None THEN Ok(None) ELSE Transpose(from_range_str(Unwrap(range)))

\* mcp_server.rs 405-411: split at commas, trim, drop the empty names
AirlinesOf(airlines) ==
  IF airlines = None THEN None
  ELSE LET parts == Split(Unwrap(airlines), ",") IN
       Some(SelectSeq([i \in 1..Len(parts) |-> Trim(parts[i])], LAMBDA a : a # <<>>))

\* the error text a request builder of the tool server returns
BuildError(text, cause) == Err("String", text, cause)

\* mcp_server.rs 373-440: the parsed parameters are looked at in the order
\* trip type, seat class, departure window, arrival window; then the legs
\* are built
FlightSearchRequestOf(from_airport, to_airport, params, trip_type, seat_class, departure_time, arrival_time, parsed_airlines) ==
  IF ~trip_type.ok THEN BuildError("Invalid trip type:", trip_type)
  ELSE IF ~seat_class.ok THEN BuildError("Invalid seat class:", seat_class)
  ELSE IF ~departure_time.ok THEN BuildError("Invalid departure time:", departure_time)
  ELSE IF ~arrival_time.ok THEN BuildError("Invalid arrival time:", arrival_time)
  ELSE Ok([flights     |->
             <<Leg(params.departure_date, from_airport, to_airport, params.max_stops,
                   parsed_airlines, departure_time.value, arrival_time.value)>>
             \o (IF trip_type.value = "RoundTrip" /\ IsSome(params.return_date)
                 THEN <<Leg(Unwrap(params.return_date), to_airport, from_airport,
                            params.max_stops, parsed_airlines, None, arrival_time.value)>>
                 ELSE <<>>),
           trip_type   |-> trip_type.value,
           passengers  |-> PassengersOf(params),
           seat_class  |-> seat_class.value])

\* mcp_server.rs 361-441
build_flight_search_request(from_airport, to_airport, params) ==
  FlightSearchRequestOf(from_airport, to_airport, params,
                        TripType_from_str(Unwrap_or(params.trip_type, OneWayText)),
                        SeatClass_from_str(Unwrap_or(params.seat_class, EconomyText)),
                        WindowOf(params.departure_time),
                        WindowOf(params.arrival_time),
                        AirlinesOf(params.airlines))

\* mcp_server.rs 455-522: as for the airport request, with city legs
CityFlightSearchRequestOf(from_city, to_city, params, trip_type, seat_class, departure_time, arrival_time, parsed_airlines) ==
  IF ~trip_type.ok THEN BuildError("Invalid trip type:", trip_type)
  ELSE IF ~seat_class.ok THEN BuildError("Invalid seat class:", seat_class)
  ELSE IF ~departure_time.ok THEN BuildError("Invalid departure time:", departure_time)
  ELSE IF ~arrival_time.ok THEN BuildError("Invalid arrival time:", arrival_time)
  ELSE Ok([flights     |->
             <<CityLeg(params.departure_date, from_city, to_city, params.max_stops,
                       parsed_airlines, departure_time.value, arrival_time.value)>>
             \o (IF trip_type.value = "RoundTrip" /\ IsSome(params.return_date)
                 THEN <<CityLeg(Unwrap(params.return_date), to_city, from_city,
                                params.max_stops, parsed_airlines, None, arrival_time.value)>>
                 ELSE <<>>),
           trip_type   |-> trip_type.value,
           passengers  |-> PassengersOf(params),
           seat_class  |-> seat_class.value])

\* mcp_server.rs 443-523
build_city_flight_search_request(from_city, to_city, params) ==
  CityFlightSearchRequestOf(from_city, to_city, params,
                            TripType_from_str(Unwrap_or(params.trip_type, OneWayText)),
                            SeatClass_from_str(Unwrap_or(params.seat_class, EconomyText)),
                            WindowOf(params.departure_time),
                            WindowOf(params.arrival_time),
                            AirlinesOf(params.airlines))

\* main.rs 260-272: the first window that does not parse ends the call
CommonParams(parsed_airlines, departure_time_window, arrival_time_window) ==
  IF ~departure_time_window.ok THEN departure_time_window
  ELSE IF ~arrival_time_window.ok THEN arrival_time_window
  ELSE Ok([departure_time_window |-> departure_time_window.value,
           arrival_time_window   |-> arrival_time_window.value,
           parsed_airlines       |-> parsed_airlines])

\* main.rs 254-257: split at commas and trim; empty names are kept
split_airlines(airlines) ==
  IF airlines = None THEN None
  ELSE LET parts == Split(Unwrap(airlines), ",") IN
       Some([i \in 1..Len(parts) |-> Trim(parts[i])])

\* main.rs 250-273
parse_common_params(params) ==
  CommonParams(split_airlines(params.airlines),
               WindowOf(params.departure_time), WindowOf(params.arrival_time))

\* main.rs 276-283
build_passengers(params) ==
  [adults |-> params.adults, children |-> params.children,
   infants_in_seat |-> params.infants_in_seat, infants_on_lap |-> params.infants_on_lap]

\* main.rs 158-192: the legs, the trip type (round trip whenever a return
\* date is given, else the parsed text) and the seat class
AirportSearchRequestOf(from, to, params, common, trip_type, seat_class) ==
  IF ~common.ok THEN common
  ELSE IF ~trip_type.ok THEN trip_type
  ELSE IF ~seat_class.ok THEN seat_class
  ELSE Ok([flights     |->
             <<Leg(params.date, from, to, params.max_stops,
                   common.value.parsed_airlines,
                   common.value.departure_time_window,
                   common.value.arrival_time_window)>>
             \o (IF IsSome(params.return_date)
                 THEN <<Leg(Unwrap(params.return_date), to, from, params.max_stops,
                            common.value.parsed_airlines,
                            common.value.departure_time_window,
                            common.value.arrival_time_window)>>
                 ELSE <<>>),
           trip_type   |-> trip_type.value,
           passengers  |-> build_passengers(params),
           seat_class  |-> seat_class.value])

\* main.rs 155-192: the request execute_airport_search builds, or the error
\* it returns before any search
execute_airport_search_request(from, to, params) ==
  AirportSearchRequestOf(from, to, params,
                         parse_common_params(params),
                         IF IsSome(params.return_date) THEN Ok("RoundTrip")
                         ELSE TripType_from_str(params.trip_type),
                         SeatClass_from_str(params.class))

\* faulty variant: when all four location parameters are given the airport
\* codes are used
LocationMode_AirportWins(params) ==
  LET from_airport == IsSome(params.from_airport)
      to_airport   == IsSome(params.to_airport)
      from_city    == IsSome(params.from_city)
      to_city      == IsSome(params.to_city)
  IN
  IF from_airport /\ to_airport THEN "airport"
  ELSE IF ~from_airport /\ ~to_airport /\ from_city /\ to_city THEN "city"
  ELSE IF from_airport # to_airport THEN "airport incomplete"
  ELSE IF from_city # to_city THEN "city incomplete"
  ELSE "none"

\* mcp_server.rs 190-236: the arm of the match that the presence of the four
\* location parameters selects (the arms are tried in the order written)
LocationMode(params) ==
  LET from_airport == IsSome(params.from_airport)
      to_airport   == IsSome(params.to_airport)
      from_city    == IsSome(params.from_city)
      to_city      == IsSome(params.to_city)
  IN
  IF from_airport /\ to_airport /\ ~from_city /\ ~to_city THEN "airport"
  ELSE IF ~from_airport /\ ~to_airport /\ from_city /\ to_city THEN "city"
  ELSE IF from_airport # to_airport THEN "airport incomplete"
  ELSE IF from_city # to_city THEN "city incomplete"
  ELSE IF from_airport /\ to_airport /\ from_city /\ to_city THEN "both"
  ELSE "none"

\* the error JSON the tool server answers with
ErrorJson(text, cause) == Err("json", text, cause)

\* mcp_server.rs 220-235: the answer of an arm that is no search
LocationError(mode) ==
  CASE mode = "airport incomplete" ->
         ErrorJson("For airport search, both from_airport and to_airport must be specified", None)
    [] mode = "city incomplete" ->
         ErrorJson("For city search, both from_city and to_city must be specified", None)
    [] mode = "both" ->
         ErrorJson("Cannot specify both airport codes and city names - choose one search mode", None)
    [] mode = "none" ->
         ErrorJson("Must specify either airport codes (from_airport/to_airport) or city names (from_city/to_city) for flight search", None)

CityNotFound == "CityNotFound"

\* lib.rs 307-315: the city a resolution asks for
CityOf(city_flight, side) ==
  IF side = "from" THEN city_flight.from_city ELSE city_flight.to_city

\* faulty variant: the two identifiers are put into the leg the other way round
AirportFlight_Swapped(city_flight, from_freebase_id, to_freebase_id) ==
  Leg(city_flight.date, to_freebase_id, from_freebase_id, city_flight.max_stops,
      city_flight.airlines, city_flight.departure_time, city_flight.arrival_time)

\* lib.rs 318-326: the leg built from a city leg and its two identifiers
AirportFlight(city_flight, from_freebase_id, to_freebase_id) ==
  Leg(city_flight.date, from_freebase_id, to_freebase_id, city_flight.max_stops,
      city_flight.airlines, city_flight.departure_time, city_flight.arrival_time)

\* faulty variant: a city that does not resolve is passed over and the next
\* one is asked for
AfterResolution_GoesOn(e, city_flight, id) ==
  IF e.side = "from" THEN [e EXCEPT !.side = "to", !.from_freebase_id = Some(Unwrap_or(id, <<>>))]
  ELSE [e EXCEPT !.side = "from", !.i = @ + 1, !.from_freebase_id = None,
                 !.airport_flights =
                    Append(@, AirportFlight(city_flight, Unwrap(e.from_freebase_id),
                                            Unwrap_or(id, <<>>)))]

\* lib.rs 307-328: where get_flights_by_city is after a resolution: returned
\* (the ? operator) when it failed, at the to-city after the from-city, at
\* the next leg after the to-city, the finished leg pushed
AfterResolution(e, city_flight, id) ==
  IF id = None THEN [at |-> "returned"]
  ELSE IF e.side = "from" THEN [e EXCEPT !.side = "to", !.from_freebase_id = id]
  ELSE [e EXCEPT !.side = "from", !.i = @ + 1, !.from_freebase_id = None,
                 !.airport_flights =
                    Append(@, AirportFlight(city_flight, Unwrap(e.from_freebase_id),
                                            Unwrap(id)))]

\* faulty variant: the call-level bound replaces the bound of every leg
FillMaxStops_Always(flight, max_stops) ==
  [flight EXCEPT !.max_stops = max_stops]

\* lib.rs 231-235: a leg without a stop bound takes the call-level one
FillMaxStops(flight, max_stops) ==
  IF flight.max_stops = None THEN [flight EXCEPT !.max_stops = max_stops] ELSE flight

\* lib.rs 227-243: the request get_flights_legacy builds, or the parse error
\* it returns
legacy_request(flight_data, trip, seat, passengers, max_stops) ==
  LET trip_type  == TripType_from_str(trip)
      seat_class == SeatClass_from_str(seat)
  IN
  IF ~trip_type.ok THEN trip_type
  ELSE IF ~seat_class.ok THEN seat_class
  ELSE Ok([flights    |-> [i \in 1..Len(flight_data) |-> FillMaxStops(flight_data[i], max_stops)],
           trip_type  |-> trip_type.value,
           passengers |-> passengers,
           seat_class |-> seat_class.value])

\* what the entry point gives back for the Result of the library call: the
\* tool server answers with JSON text (mcp_server.rs 238-251), the others
\* return the Result as it is
Answer(op, res) ==
  IF op # "server" THEN res
  ELSE IF res.ok THEN Ok("flights json")
  ELSE ErrorJson("Flight search failed:", res)

\* ---------------------------------------------------- entry point inputs
MaxCityLegs == 2

ReturnDate == <<"2", "0", "2", "5", "-", "0", "8", "-", "2", "2">>

London == <<"L", "o", "n", "d", "o", "n">>

Paris == <<"P", "a", "r", "i", "s">>

\* trip-type texts: the three kinds, one in capitals, one that is no kind
TripTexts ==
  { OneWayText,
    <<"R", "o", "u", "n", "d", "-", "T", "r", "i", "p">>,
    <<"r", "o", "u", "n", "d", "t", "r", "i", "p">>,
    <<"m", "u", "l", "t", "i", "-", "c", "i", "t", "y">>,
    <<"r", "e", "t", "u", "r", "n">> }

\* seat texts: two classes and one that is no class
SeatTexts == {EconomyText, <<"B", "u", "s", "i", "n", "e", "s", "s">>, <<"c", "o", "a", "c", "h">>}

MorningText == <<"0", "6", ":", "0", "0", "-", "1", "2", ":", "0", "0">>

EveningText == <<"1", "5", ":", "0", "0", "-", "2", "1", ":", "0", "0">>

NoonText == <<"n", "o", "o", "n">>

AirlinesText == <<"A", "A", ",", " ", ",", "D", "L">>

\* the parameters of the tool server's search: every presence combination of
\* the four location parameters with every trip text, with and without a
\* return date and with a seat text that is none or no class; and the airport
\* search with every combination of the other parameters
ServerParams ==
  [from_airport : {None, Some(Lax)}, to_airport : {None, Some(Jfk)},
   from_city : {None, Some(London)}, to_city : {None, Some(Paris)},
   departure_date : {SampleDate}, return_date : {None, Some(ReturnDate)},
   adults : {None}, children : {None}, infants_in_seat : {None}, infants_on_lap : {None},
   seat_class : {None, Some(<<"c", "o", "a", "c", "h">>)}, max_stops : {None},
   airlines : {None}, departure_time : {None}, arrival_time : {None},
   trip_type : {None} \cup {Some(trip) : trip \in TripTexts}]
  \cup
  [from_airport : {Some(Lax)}, to_airport : {Some(Jfk)},
   from_city : {None}, to_city : {None},
   departure_date : {SampleDate}, return_date : {None, Some(ReturnDate)},
   adults : {None, Some(2)}, children : {None}, infants_in_seat : {None},
   infants_on_lap : {None, Some(1)},
   seat_class : {None} \cup {Some(seat) : seat \in SeatTexts}, max_stops : {None, Some(1)},
   airlines : {None, Some(AirlinesText)},
   departure_time : {None, Some(MorningText), Some(NoonText)},
   arrival_time : {None, Some(EveningText)},
   trip_type : {None} \cup {Some(trip) : trip \in TripTexts}]

\* the parameters of the command line's airport search
CommonSearchParams ==
  [date : {SampleDate}, return_date : {None, Some(ReturnDate)},
   adults : {1, 2}, children : {0}, infants_in_seat : {0}, infants_on_lap : {0},
   class : SeatTexts, max_stops : {None, Some(1)},
   airlines : {None, Some(AirlinesText)},
   departure_time : {None, Some(MorningText), Some(NoonText)},
   arrival_time : {None, Some(EveningText)},
   trip_type : TripTexts]

\* city legs: a plain one, and one with every filter set
CityLegSamples ==
  { CityLeg(SampleDate, London, Paris, None, None, None, None),
    CityLeg(ReturnDate, Paris, London, Some(1), Some(<< <<"A", "A">> >>),
            Some(TimeWindow(6, 12)), Some(TimeWindow(15, 21))) }

CityRequests ==
  [flights : Strings(CityLegSamples, MaxCityLegs), trip_type : TripTypes,
   passengers : {DefaultPassengers, [DefaultPassengers EXCEPT !.children = 2]},
   seat_class : {"Economy", "First"}]

\* the identifiers the resolver may give for a city
FreebaseIds == {<<"/", "m", "/", "0", "4">>, <<"/", "m", "/", "0", "5">>}

\* the arguments of get_flights_legacy
LegacyCalls ==
  [flight_data : Strings(LegSamples, MaxLegs), trip : TripTexts, seat : SeatTexts,
   passengers : {DefaultPassengers}, max_stops : {None, Some(0), Some(2)}]

\* what the flight search may return
SearchOutcomes ==
  { Ok("FlightResult"),
    Err(HttpError, "request failed", None),
    Err(ParseError, "No flights found", None) }

\* ---------------------------------------------------- entry point actions
Invoked(op) == IsSome(invoked) /\ Unwrap(invoked).op = op /\ epc.at = "called"

\* the request is handed to get_flights (lib.rs 213-216)
Search(airport_request) ==
  /\ handed' = Some(airport_request)
  /\ trail' = Append(trail, [ev |-> "search", city |-> <<>>, id |-> None])
  /\ epc' = [at |-> "searching"]
  /\ UNCHANGED returned

\* the entry point returns without a search
Return(res) ==
  /\ returned' = Some(res)
  /\ epc' = [at |-> "returned"]
  /\ UNCHANGED <<trail, handed>>

\* get_flights_by_city is entered (lib.rs 299-305)
Resolve(city_request) ==
  /\ epc' = [at |-> "resolving", city_request |-> city_request, i |-> 1, side |-> "from",
             from_freebase_id |-> None, airport_flights |-> <<>>]
  /\ UNCHANGED <<trail, handed, returned>>

\* mcp_server.rs 194-203: the airport request is searched with, or the error
\* of its builder is answered
SearchOrReturn(built, text) ==
  IF built.ok THEN Search(built.value) ELSE Return(ErrorJson(text, built))

\* mcp_server.rs 208-217: the same for the city request
ResolveOrReturn(built, text) ==
  IF built.ok THEN Resolve(built.value) ELSE Return(ErrorJson(text, built))

\* the library call is made with the request, or its error is returned
SearchOrFail(built) == IF built.ok THEN Search(built.value) ELSE Return(built)

\* mcp_server.rs 166-236: FlightServer::get_flights up to the library call
ServerGetFlights ==
  /\ Invoked("server")
  /\ LET params == Unwrap(invoked).params
         mode   == LocationMode(params)
     IN
     IF mode = "airport"
     THEN SearchOrReturn(build_flight_search_request(Unwrap(params.from_airport),
                                                     Unwrap(params.to_airport), params),
                         "Error building flight request:")
     ELSE IF mode = "city"
     THEN ResolveOrReturn(build_city_flight_search_request(Unwrap(params.from_city),
                                                           Unwrap(params.to_city), params),
                          "Error building city flight request:")
     ELSE Return(LocationError(mode))
  /\ UNCHANGED invoked
  /\ UNCHANGED <<codecVars, windowVars, clientVars, cacheVars, parserVars, resolverVars>>

\* main.rs 150-195: execute_airport_search up to the library call
ExecuteAirportSearch ==
  /\ Invoked("cli")
  /\ SearchOrFail(execute_airport_search_request(Unwrap(invoked).from, Unwrap(invoked).to,
                                                 Unwrap(invoked).params))
  /\ UNCHANGED invoked
  /\ UNCHANGED <<codecVars, windowVars, clientVars, cacheVars, parserVars, resolverVars>>

\* lib.rs 220-245: get_flights_legacy up to the call of get_flights
GetFlightsLegacy ==
  /\ Invoked("legacy")
  /\ SearchOrFail(legacy_request(Unwrap(invoked).flight_data, Unwrap(invoked).trip,
                                 Unwrap(invoked).seat, Unwrap(invoked).passengers,
                                 Unwrap(invoked).max_stops))
  /\ UNCHANGED invoked
  /\ UNCHANGED <<codecVars, windowVars, clientVars, cacheVars, parserVars, resolverVars>>

\* lib.rs 299-305: get_flights_by_city called by a user of the library
GetFlightsByCity ==
  /\ Invoked("by_city")
  /\ Resolve(Unwrap(invoked).city_request)
  /\ UNCHANGED invoked
  /\ UNCHANGED <<codecVars, windowVars, clientVars, cacheVars, parserVars, resolverVars>>

\* lib.rs 307-328: one call of get_freebase_id_only returns: an error ends
\* get_flights_by_city with CityNotFound of the city asked for; an identifier
\* of the from-city is kept, one of the to-city completes the leg
ResolveCity ==
  /\ epc.at = "resolving"
  /\ epc.i <= Len(epc.city_request.flights)
  /\ \E id \in {None} \cup {Some(freebase_id) : freebase_id \in FreebaseIds} :
       /\ trail' = Append(trail, [ev |-> "resolve",
                                  city |-> CityOf(epc.city_request.flights[epc.i], epc.side),
                                  id |-> id])
       /\ returned' =
            IF id = None
            THEN Some(Answer(Unwrap(invoked).op,
                             Err(CityNotFound, "City not found:",
                                 CityOf(epc.city_request.flights[epc.i], epc.side))))
            ELSE returned
       /\ epc' = AfterResolution(epc, epc.city_request.flights[epc.i], id)
  /\ UNCHANGED <<invoked, handed>>
  /\ UNCHANGED <<codecVars, windowVars, clientVars, cacheVars, parserVars, resolverVars>>

\* lib.rs 331-340: every leg is built; the airport request is handed to
\* get_flights
SearchByCity ==
  /\ epc.at = "resolving"
  /\ epc.i > Len(epc.city_request.flights)
  /\ Search([flights    |-> epc.airport_flights,
             trip_type  |-> epc.city_request.trip_type,
             passengers |-> epc.city_request.passengers,
             seat_class |-> epc.city_request.seat_class])
  /\ UNCHANGED invoked
  /\ UNCHANGED <<codecVars, windowVars, clientVars, cacheVars, parserVars, resolverVars>>

\* get_flights returns and the entry point returns its Result
SearchReturns ==
  /\ epc.at = "searching"
  /\ \E res \in SearchOutcomes :
       returned' = Some(Answer(Unwrap(invoked).op, res))
  /\ epc' = [at |-> "returned"]
  /\ UNCHANGED <<invoked, trail, handed>>
  /\ UNCHANGED <<codecVars, windowVars, clientVars, cacheVars, parserVars, resolverVars>>

InitEntry ==
  /\ CodecIdle /\ WindowIdle /\ ClientIdle /\ CacheIdle
  /\ ParserIdle /\ ResolverIdle
  /\ invoked \in
       {Some([op |-> "server", params |-> params]) : params \in ServerParams}
       \cup {Some([op |-> "cli", from |-> Lax, to |-> Jfk, params |-> params]) :
               params \in CommonSearchParams}
       \cup {Some([op |-> "by_city", city_request |-> city_request]) :
               city_request \in CityRequests}
       \cup {Some([op |-> "legacy"] @@ call) : call \in LegacyCalls}
  /\ epc = [at |-> "called"]
  /\ trail = <<>>
  /\ handed = None
  /\ returned = None

NextEntry ==
  \/ ServerGetFlights \/ ExecuteAirportSearch \/ GetFlightsLegacy \/ GetFlightsByCity
  \/ ResolveCity \/ SearchByCity \/ SearchReturns

SpecEntry == InitEntry /\ [][NextEntry]_vars

\* ------------------------------------------------------ entry point claims
Op(op) == IsSome(invoked) /\ Unwrap(invoked).op = op

\* the four location parameters of the tool server's call name one mode:
\* both airport codes and no city, or both cities and no airport code
OneLocationMode ==
  LET params == Unwrap(invoked).params IN
  \/ /\ IsSome(params.from_airport) /\ IsSome(params.to_airport)
     /\ params.from_city = None /\ params.to_city = None
  \/ /\ params.from_airport = None /\ params.to_airport = None
     /\ IsSome(params.from_city) /\ IsSome(params.to_city)

\* the other parameters of the tool server's call build a request: the trip
\* text, the seat text and the two windows parse
OtherParamsValid ==
  LET params == Unwrap(invoked).params IN
  /\ TripType_from_str(Unwrap_or(params.trip_type, OneWayText)).ok
  /\ SeatClass_from_str(Unwrap_or(params.seat_class, EconomyText)).ok
  /\ WindowOf(params.departure_time).ok
  /\ WindowOf(params.arrival_time).ok

\* the call goes through get_flights_by_city
IsCityCall ==
  \/ Op("by_city")
  \/ /\ Op("server") /\ OneLocationMode /\ IsSome(Unwrap(invoked).params.from_city)
     /\ OtherParamsValid

\* the city request get_flights_by_city was given
TheCityRequest ==
  IF Op("by_city") THEN Unwrap(invoked).city_request
  ELSE build_city_flight_search_request(Unwrap(Unwrap(invoked).params.from_city),
                                        Unwrap(Unwrap(invoked).params.to_city),
                                        Unwrap(invoked).params).value

\* the resolutions and the searches issued so far, in order
Resolutions == SelectSeq(trail, LAMBDA e : e.ev = "resolve")

Searches == SelectSeq(trail, LAMBDA e : e.ev = "search")

\* C22: when every city of a city-based request resolves, the request handed
\* to the flight search has the same number and order of legs; the origin and
\* the destination of leg i are the identifiers the resolver returned for its
\* from-city and its to-city; date, max_stops, airlines and the two windows of
\* every leg, and trip type, seat class and passengers, are those of the city
\* request.
C22_CityRequestPassedThrough ==
  (IsCityCall /\ IsSome(handed)) =>
    LET city_request    == TheCityRequest
        airport_request == Unwrap(handed)
    IN
    /\ Len(airport_request.flights) = Len(city_request.flights)
    /\ Len(Resolutions) = 2 * Len(city_request.flights)
    /\ \A i \in 1..Len(city_request.flights) :
         LET city_flight == city_request.flights[i]
             flight      == airport_request.flights[i]
         IN
         /\ Resolutions[2 * i - 1].city = city_flight.from_city
         /\ Resolutions[2 * i].city = city_flight.to_city
         /\ Some(flight.from_airport) = Resolutions[2 * i - 1].id
         /\ Some(flight.to_airport) = Resolutions[2 * i].id
         /\ flight.date = city_flight.date
         /\ flight.max_stops = city_flight.max_stops
         /\ flight.airlines = city_flight.airlines
         /\ flight.departure_time = city_flight.departure_time
         /\ flight.arrival_time = city_flight.arrival_time
    /\ airport_request.trip_type = city_request.trip_type
    /\ airport_request.seat_class = city_request.seat_class
    /\ airport_request.passengers = city_request.passengers

\* a request of two legs, the second with every filter set, was handed over
\* after four resolutions; the resolver gave the two cities of the first leg
\* different identifiers
C22_Witness ==
  /\ Op("by_city")
  /\ IsSome(handed)
  /\ Len(Unwrap(handed).flights) = 2
  /\ Unwrap(handed).flights[1].from_airport # Unwrap(handed).flights[1].to_airport
  /\ IsSome(Unwrap(handed).flights[2].max_stops)
  /\ IsSome(Unwrap(handed).flights[2].departure_time)
  /\ Unwrap(handed).passengers.children = 2

\* C23: every search request the command line and the tool server build from
\* user parameters has exactly one leg when its trip type is one-way and
\* exactly two legs (outbound, then the return with origin and destination
\* swapped) when its trip type is round-trip, whatever the trip-type and
\* return-date parameters.
C23_LegsMatchTripType ==
  ((Op("cli") \/ (Op("server") /\ ~IsCityCall)) /\ IsSome(handed)) =>
    LET flights == Unwrap(handed).flights IN
    /\ Unwrap(handed).trip_type = "OneWay" => Len(flights) = 1
    /\ Unwrap(handed).trip_type = "RoundTrip" =>
         /\ Len(flights) = 2
         /\ flights[2].from_airport = flights[1].to_airport
         /\ flights[2].to_airport = flights[1].from_airport

\* the cities of a city request in the order get_flights_by_city asks for them
RECURSIVE CitiesOf(_)
CitiesOf(city_flights) ==
  IF city_flights = <<>> THEN <<>>
  ELSE <<Head(city_flights).from_city, Head(city_flights).to_city>>
       \o CitiesOf(Tail(city_flights))

\* C24: get_flights_by_city resolves the cities in order (leg by leg, the
\* from-city before the to-city) and stops at the first one that does not
\* resolve: it returns CityNotFound with that city's name, asks for no later
\* city and issues no flight search; the flight search is issued only after
\* every city of every leg has resolved, and once.
C24_StopsAtFirstUnresolvedCity ==
  IsCityCall =>
    LET cities == CitiesOf(TheCityRequest.flights)
        n      == Len(Resolutions)
    IN
    /\ n <= Len(cities)
    /\ \A k \in 1..n : Resolutions[k].city = cities[k]
    /\ \A k \in 1..(n - 1) : IsSome(Resolutions[k].id)
    /\ (n > 0 /\ Resolutions[n].id = None) =>
         /\ epc.at = "returned"
         /\ ~ENABLED NextEntry
         /\ handed = None
         /\ Searches = <<>>
         /\ returned = Some(Answer(Unwrap(invoked).op,
                                   Err(CityNotFound, "City not found:", cities[n])))
    /\ Searches # <<>> =>
         /\ n = Len(cities)
         /\ \A k \in 1..n : IsSome(Resolutions[k].id)
         /\ Len(Searches) = 1
         /\ trail[Len(trail)].ev = "search"

\* the to-city of the second leg did not resolve after three cities had: the
\* call has returned CityNotFound and nothing was searched
C24_Witness ==
  /\ Op("by_city")
  /\ Len(Resolutions) = 4
  /\ Resolutions[4].id = None
  /\ IsSome(returned) /\ ~Unwrap(returned).ok /\ Unwrap(returned).err = CityNotFound
  /\ Unwrap(returned).message[2] = Unwrap(invoked).city_request.flights[2].to_city
  /\ trail[Len(trail)].ev = "resolve"

IsErrorJson(o) == IsSome(o) /\ ~Unwrap(o).ok /\ Unwrap(o).err = "json"

\* C25 as stated: the tool server's search performs a search exactly when one
\* location mode is fully specified; each of the other 14 presence
\* combinations returns an error and performs no resolution or search.
C25_SearchIffOneMode ==
  Op("server") =>
    /\ (trail # <<>> \/ epc.at \in {"resolving", "searching"}) => OneLocationMode
    /\ (epc.at = "returned" /\ OneLocationMode) => trail # <<>>
    /\ (epc.at = "returned" /\ ~OneLocationMode) =>
         (IsErrorJson(returned) /\ trail = <<>> /\ handed = None)

\* C25 amended: the tool server's search performs a resolution or a search
\* exactly when one location mode is fully specified and the other parameters
\* (trip type, seat class, the two windows) parse; each of the other 14
\* presence combinations, and every call whose other parameters do not parse,
\* returns an error and performs no resolution or search.
C25_SearchIffOneModeAndValid ==
  Op("server") =>
    /\ (trail # <<>> \/ epc.at \in {"resolving", "searching"}) =>
         (OneLocationMode /\ OtherParamsValid)
    /\ (epc.at = "returned" /\ OneLocationMode /\ OtherParamsValid) => trail # <<>>
    /\ (epc.at = "returned" /\ ~(OneLocationMode /\ OtherParamsValid)) =>
         (IsErrorJson(returned) /\ trail = <<>> /\ handed = None)

\* all four location parameters were given: the call has returned an error
\* and nothing was resolved or searched
C25_Witness ==
  /\ Op("server")
  /\ epc.at = "returned"
  /\ IsSome(Unwrap(invoked).params.from_airport) /\ IsSome(Unwrap(invoked).params.to_airport)
  /\ IsSome(Unwrap(invoked).params.from_city) /\ IsSome(Unwrap(invoked).params.to_city)
  /\ IsErrorJson(returned)
  /\ trail = <<>>

\* a trip text or a seat text that names no trip type or seat class
IsTripText(s) == ToLowercase(s) \in RoundTripTexts \cup OneWayTexts \cup MultiCityTexts

IsSeatText(s) ==
  ToLowercase(s) \in {EconomyText, BusinessText, FirstText} \cup PremiumEconomyTexts

\* C30: get_flights_legacy gives the call-level max_stops only to the legs
\* that have none of their own: a leg with its own max_stops keeps it, every
\* other field of every leg and the order of the legs are unchanged; when the
\* trip or the seat text is invalid the call returns a parse error before any
\* request is built and before any fetch.
C30_LegacyMaxStops ==
  (Op("legacy") /\ epc.at # "called") =>
    LET call == Unwrap(invoked) IN
    IF IsTripText(call.trip) /\ IsSeatText(call.seat)
    THEN /\ IsSome(handed)
         /\ Len(Unwrap(handed).flights) = Len(call.flight_data)
         /\ \A i \in 1..Len(call.flight_data) :
              LET flight == Unwrap(handed).flights[i] IN
              /\ flight.max_stops = IF IsSome(call.flight_data[i].max_stops)
                                    THEN call.flight_data[i].max_stops
                                    ELSE call.max_stops
              /\ [flight EXCEPT !.max_stops = call.flight_data[i].max_stops]
                   = call.flight_data[i]
         /\ Unwrap(handed).passengers = call.passengers
    ELSE /\ epc.at = "returned"
         /\ IsSome(returned) /\ ~Unwrap(returned).ok /\ Unwrap(returned).err = ParseError
         /\ handed = None
         /\ trail = <<>>

\* a call with max_stops 2 and two legs, the first with max_stops 1 of its
\* own and the second with none: the request was handed to the search
C30_Witness ==
  /\ Op("legacy")
  /\ IsSome(handed)
  /\ Unwrap(invoked).max_stops = Some(2)
  /\ Len(Unwrap(invoked).flight_data) = 2
  /\ Unwrap(invoked).flight_data[1].max_stops = Some(1)
  /\ Unwrap(invoked).flight_data[2].max_stops = None
  /\ Unwrap(handed).flights[1].max_stops = Some(1)
  /\ Unwrap(handed).flights[2].max_stops = Some(2)

\* ------------------------------------------------------ the city resolver
\* str::replace: every non-overlapping occurrence of pat, from the left
RECURSIVE ReplaceFrom(_, _, _, _)
ReplaceFrom(s, pat, with, k) ==
  IF k > Len(s) THEN <<>>
  ELSE IF k + Len(pat) - 1 <= Len(s) /\ SubSeq(s, k, k + Len(pat) - 1) = pat
  THEN with \o ReplaceFrom(s, pat, with, k + Len(pat))
  ELSE <<s[k]>> \o ReplaceFrom(s, pat, with, k + 1)

Replace(s, pat, with) == ReplaceFrom(s, pat, with, 1)

\* wikidata.rs 251-258: the closure normalize
Normalize(name) ==
  Trim(Replace(Replace(Replace(Replace(name, <<"s", "a", "i", "n", "t", " ">>, <<"s", "t", ".", " ">>),
                               <<"s", "t", " ">>, <<"s", "t", ".", " ">>),
                       <<"m", "o", "u", "n", "t", " ">>, <<"m", "t", ".", " ">>),
               <<"f", "o", "r", "t", " ">>, <<"f", "t", ".", " ">>))

\* wikidata.rs 249-265
is_city_name_match(query, cached) ==
  \/ Contains(Normalize(query), Normalize(cached))
  \/ Contains(Normalize(cached), Normalize(query))

\* the first of a sequence, if any
First(matches) == IF matches = <<>> THEN None ELSE Some(matches[1])

\* wikidata.rs 230-243: the first key in iteration order that equals the name
\* without regard to case, else the first that matches as a variation
IterLookup(city_cache, iter, city_name_lower) ==
  LET same_name == First(SelectSeq(iter,
                     LAMBDA cached_city : ToLowercase(cached_city) = city_name_lower))
      variation == First(SelectSeq(iter,
                     LAMBDA cached_city :
                       is_city_name_match(city_name_lower, ToLowercase(cached_city))))
  IN IF IsSome(same_name) THEN Some(city_cache[Unwrap(same_name)])
     ELSE IF IsSome(variation) THEN Some(city_cache[Unwrap(variation)])
     ELSE None

\* wikidata.rs 222-246; iter is the order in which this run's HashMap yields
\* its keys
get_from_cache(city_cache, iter, city_name) ==
  IF city_name \in DOMAIN city_cache THEN Some(city_cache[city_name])
  ELSE IterLookup(city_cache, iter, ToLowercase(city_name))

\* wikidata.rs 135-137
is_city_cached(city_cache, iter, city_name) ==
  IsSome(get_from_cache(city_cache, iter, city_name))

NoFreebaseId == "NoFreebaseId"

SparqlError == "SparqlError"

\* wikidata.rs 206-218: the first row whose name is the city name without
\* regard to case, when it has an identifier; else the first row that has one
PickFreebaseId(cities, city_name) ==
  LET exact   == First(SelectSeq(cities,
                   LAMBDA c : ToLowercase(c.name) = ToLowercase(city_name)))
      with_id == First(SelectSeq(cities, LAMBDA c : IsSome(c.freebase_id)))
  IN IF IsSome(exact) /\ IsSome(Unwrap(exact).freebase_id)
     THEN Ok(Unwrap(Unwrap(exact).freebase_id))
     ELSE IF IsSome(with_id) THEN Ok(Unwrap(Unwrap(with_id).freebase_id))
     ELSE Err(NoFreebaseId, "No Freebase ID found for city:", city_name)

\* wikidata.rs 203-204: the ? operators: an error of the query or of its
\* parsing is returned, else the rows are looked through
AfterResponse(response, city_name) ==
  IF response.ok THEN PickFreebaseId(response.value, city_name) ELSE response

\* faulty variant: Wikidata is asked whatever the cache holds
AfterCacheCheck_AlwaysQueries(freebase_id) == "querying"

\* wikidata.rs 194-203: a hit is returned, a miss goes on to the query
AfterCacheCheck(freebase_id) == IF IsSome(freebase_id) THEN "returned" ELSE "querying"

\* ------------------------------------------------------- resolver inputs
MaxCalls == 2

MaxRows == 3

\* the orders in which a HashMap with these keys may yield them
Orders(keys) ==
  {iter \in [1..Cardinality(keys) -> keys] : \A k \in keys : \E i \in DOMAIN iter : iter[i] = k}

\* cache contents: the empty map of a file that did not parse; two cities, one
\* of them written with "St."; two cities of which one name is part of the
\* other
CacheContents ==
  { <<>>,
    [k \in {<<"S", "t", ".", " ", "L", "o", "u", "i", "s">>, <<"P", "a", "r", "i", "s">>} |-> IF k = <<"P", "a", "r", "i", "s">> THEN "/m/05qtj" ELSE "/m/06wxw"],
    [k \in {<<"Y", "o", "r", "k">>, <<"N", "e", "w", " ", "Y", "o", "r", "k">>} |-> IF k = <<"Y", "o", "r", "k">> THEN "/m/0dzl9" ELSE "/m/02_286"] }

\* city names asked for: a cached name, the same in capitals, a variation of
\* a cached name, a name that contains two cached names, the empty name, a
\* name in no cache, a cached name in small letters
CityNames ==
  { <<"P", "a", "r", "i", "s">>, <<"P", "A", "R", "I", "S">>, <<"s", "a", "i", "n", "t", " ", "l", "o", "u", "i", "s">>, <<"n", "e", "w", " ", "y", "o", "r", "k", " ", "c", "i", "t", "y">>, <<>>, <<"L", "y", "o", "n">>, <<"y", "o", "r", "k">> }

\* rows Wikidata may answer with: the name asked for with and without an
\* identifier, another name with and without one
Rows ==
  { [name |-> <<"L", "y", "o", "n">>, freebase_id |-> None],
    [name |-> <<"l", "y", "o", "n">>, freebase_id |-> Some("/m/0dprg")],
    [name |-> <<"L", "y", "o", "n", "s">>, freebase_id |-> Some("/m/0xyz")],
    [name |-> <<"L", "y", "o", "n", "s">>, freebase_id |-> None] }

Responses ==
  {Ok(cities) : cities \in Strings(Rows, MaxRows)}
  \cup {Err(HttpError, "request failed", None),
        Err(SparqlError, "SPARQL query failed with status:", 500)}

\* ------------------------------------------------------ resolver actions
\* a call of get_freebase_id_only(city_name) is made
CallGetFreebaseIdOnly ==
  /\ rpc.at = "idle"
  /\ rpc.calls < MaxCalls
  /\ \E city_name \in CityNames :
       asked' = Some([op |-> "get_freebase_id_only", city_name |-> city_name])
  /\ rpc' = [at |-> "called", calls |-> rpc.calls + 1, mark |-> Len(queries),
             response |-> None]
  /\ resolved' = None
  /\ UNCHANGED <<cache, order, queries>>
  /\ UNCHANGED <<codecVars, windowVars, clientVars, cacheVars, parserVars, entryVars>>

\* wikidata.rs 194-203: the cache is looked at; a hit is returned; after a
\* miss the query is built and sent
CheckCache ==
  /\ rpc.at = "called"
  /\ rpc' = [rpc EXCEPT !.at = AfterCacheCheck(
                                 get_from_cache(cache, order, Unwrap(asked).city_name))]
  /\ IF rpc'.at = "returned"
     THEN /\ resolved' = Some(Ok(Unwrap(get_from_cache(cache, order, Unwrap(asked).city_name))))
          /\ UNCHANGED queries
     ELSE /\ queries' = Append(queries, Unwrap(asked).city_name)
          /\ UNCHANGED resolved
  /\ UNCHANGED <<cache, order, asked>>
  /\ UNCHANGED <<codecVars, windowVars, clientVars, cacheVars, parserVars, entryVars>>

\* wikidata.rs 203-218: the response of Wikidata comes back and the call
\* returns
QueryReturns ==
  /\ rpc.at = "querying"
  /\ \E response \in Responses :
       /\ rpc' = [rpc EXCEPT !.at = "returned", !.response = Some(response)]
       /\ resolved' = Some(AfterResponse(response, Unwrap(asked).city_name))
  /\ UNCHANGED <<cache, order, asked, queries>>
  /\ UNCHANGED <<codecVars, windowVars, clientVars, cacheVars, parserVars, entryVars>>

\* wikidata.rs 135-137: a call of is_city_cached(city_name)
IsCityCached ==
  /\ rpc.at = "idle"
  /\ rpc.calls < MaxCalls
  /\ \E city_name \in CityNames :
       /\ asked' = Some([op |-> "is_city_cached", city_name |-> city_name])
       /\ resolved' = Some(is_city_cached(cache, order, city_name))
  /\ rpc' = [at |-> "returned", calls |-> rpc.calls + 1, mark |-> Len(queries),
             response |-> None]
  /\ UNCHANGED <<cache, order, queries>>
  /\ UNCHANGED <<codecVars, windowVars, clientVars, cacheVars, parserVars, entryVars>>

\* the caller takes the result
ReturnResolver ==
  /\ rpc.at = "returned"
  /\ rpc' = [rpc EXCEPT !.at = "idle", !.response = None]
  /\ asked' = None
  /\ resolved' = None
  /\ UNCHANGED <<cache, order, queries>>
  /\ UNCHANGED <<codecVars, windowVars, clientVars, cacheVars, parserVars, entryVars>>

InitResolver ==
  /\ CodecIdle /\ WindowIdle /\ ClientIdle /\ CacheIdle
  /\ ParserIdle /\ EntryIdle
  /\ cache \in CacheContents
  /\ order \in Orders(DOMAIN cache)
  /\ asked = None
  /\ rpc = [at |-> "idle", calls |-> 0, mark |-> 0, response |-> None]
  /\ queries = <<>>
  /\ resolved = None

NextResolver ==
  \/ CallGetFreebaseIdOnly \/ CheckCache \/ QueryReturns
  \/ IsCityCached \/ ReturnResolver

SpecResolver == InitResolver /\ [][NextResolver]_vars

\* ------------------------------------------------------- resolver claims
AskedFor(op) == IsSome(asked) /\ Unwrap(asked).op = op

\* C26: when the rows of Wikidata hold a city whose name is the name asked
\* for, without regard to case, and that has a Freebase ID,
\* get_freebase_id_only returns the ID of such a row; only when no such row
\* exists does it return the ID of the first row that has one; and it fails
\* with NoFreebaseId exactly when no row has a Freebase ID.
C26_ExactNameMatchPreferred ==
  (AskedFor("get_freebase_id_only") /\ rpc.at = "returned"
     /\ IsSome(rpc.response) /\ Unwrap(rpc.response).ok) =>
    LET cities        == Unwrap(rpc.response).value
        city_name     == Unwrap(asked).city_name
        with_id       == {i \in 1..Len(cities) : IsSome(cities[i].freebase_id)}
        exact_with_id == {i \in with_id :
                            ToLowercase(cities[i].name) = ToLowercase(city_name)}
        res           == Unwrap(resolved)
    IN
    /\ exact_with_id # {} =>
         (res.ok /\ \E i \in exact_with_id : res.value = Unwrap(cities[i].freebase_id))
    /\ (exact_with_id = {} /\ with_id # {}) =>
         res = Ok(Unwrap(cities[SetMin(with_id)].freebase_id))
    /\ (~res.ok /\ res.err = NoFreebaseId) <=> with_id = {}

\* a name names a cached city: it is the cached name, exactly or without
\* regard to case, or a documented variation of it (saint/st., mount/mt.,
\* fort/ft., "New York" for "New York City")
NamesCachedCity(city_name, cached_city) ==
  LET asked_name  == Normalize(ToLowercase(city_name))
      cached_name == Normalize(ToLowercase(cached_city))
  IN
  \/ city_name = cached_city
  \/ ToLowercase(city_name) = ToLowercase(cached_city)
  \/ asked_name = cached_name
  \/ asked_name = cached_name \o <<" ", "c", "i", "t", "y">>
  \/ cached_name = asked_name \o <<" ", "c", "i", "t", "y">>

\* C27: for every name that names no cached city, the empty name included,
\* is_city_cached returns false and the cache lookup returns no ID.
C27_UnknownCityNotCached ==
  (IsSome(asked)
     /\ \A cached_city \in DOMAIN cache :
          ~NamesCachedCity(Unwrap(asked).city_name, cached_city)) =>
    /\ get_from_cache(cache, order, Unwrap(asked).city_name) = None
    /\ AskedFor("is_city_cached") => resolved = Some(FALSE)
    /\ (AskedFor("get_freebase_id_only") /\ rpc.at # "called") =>
         Len(queries) = rpc.mark + 1

\* C28: get_freebase_id_only looks at the cache before anything else: on a
\* hit it returns the cached ID and no Wikidata query is issued; a query is
\* issued only after a miss, once per call, for the city asked for; no call
\* changes the cache, so every call for a city the cache misses queries
\* Wikidata again.
C28_CacheBeforeWikidata ==
  /\ [](AskedFor("get_freebase_id_only") =>
          LET city_name == Unwrap(asked).city_name
              cached    == get_from_cache(cache, order, city_name)
          IN
          /\ Len(queries) \in {rpc.mark, rpc.mark + 1}
          /\ rpc.at = "called" => Len(queries) = rpc.mark
          /\ IsSome(cached) =>
               /\ Len(queries) = rpc.mark
               /\ rpc.response = None
               /\ rpc.at = "returned" => resolved = Some(Ok(Unwrap(cached)))
          /\ Len(queries) = rpc.mark + 1 =>
               (cached = None /\ queries[Len(queries)] = city_name)
          /\ (cached = None /\ rpc.at # "called") => Len(queries) = rpc.mark + 1)
  /\ [](AskedFor("is_city_cached") => Len(queries) = rpc.mark)
  /\ [][cache' = cache /\ order' = order]_vars

\* the second call for a city the cache misses has queried Wikidata again,
\* although the first call got an ID from it
C28_Witness ==
  /\ AskedFor("get_freebase_id_only")
  /\ rpc.at = "returned"
  /\ rpc.calls = 2
  /\ Len(queries) = 2
  /\ queries[1] = queries[2]
  /\ cache # <<>>
  /\ Unwrap(resolved).ok

\* C29: the cache lookup is deterministic: for a fixed cache content
\* get_from_cache returns the same result for the same name in every run,
\* whatever the order in which the map yields its entries, also when several
\* cached names match the name without regard to case or as a variation.
C29_LookupIndependentOfOrder ==
  IsSome(asked) =>
    \A iter \in Orders(DOMAIN cache) :
      /\ get_from_cache(cache, iter, Unwrap(asked).city_name)
           = get_from_cache(cache, order, Unwrap(asked).city_name)
      /\ (AskedFor("get_freebase_id_only") /\ rpc.at = "returned"
            /\ Len(queries) = rpc.mark) =>
           resolved = Some(Ok(Unwrap(get_from_cache(cache, iter, Unwrap(asked).city_name))))

====
